---- MODULE Spec2Model ----
(***************************************************************************)
(* Reconciliation / upsert engine of notion_automator.                     *)
(*                                                                         *)
(* The repository holds three implementations of the sheet upload:         *)
(*   "app"  src/app.py            upload_tasks                             *)
(*   "pkg"  src/notion/*.py       ProjectOperations.create_project_with_   *)
(*                                tasks + TaskOperations.create_or_update_ *)
(*                                task + handle_api_call                   *)
(*   "ops"  src/notion_ops.py     NotionOperator.create_project_with_tasks *)
(* NotionOperator.create_or_update_task of src/notion_ops.py is public and *)
(* no code of the repository calls it: under "task" a caller gives it rows *)
(* of the sheet, one call after the other.                                 *)
(* One behaviour runs one of them on one sheet, once or several times     *)
(* against the same remote store.  Every remote call attempt may succeed  *)
(* or raise (transient or structural error).                               *)
(*                                                                         *)
(* The stages that come before the upload have specifications of their     *)
(* own over the same variables:                                            *)
(*   FileSpec    the loop over the uploaded files (app.py), the Notion     *)
(*               calls of its body and the pressing of a file's button     *)
(*               (FairFileSpec: the script's steps are taken in turn)      *)
(*   ClassSpec   the row classifier (app.py, excel/processor.py)           *)
(*   DateSpec    the four date normalizers                                 *)
(*   StatusSpec  the translation of the STATUS cell, per pipeline          *)
(*   NameSpec    TaskNameGenerator (excel/processor.py)                    *)
(*   ConfigSpec  the constructors and update_config, which merge the       *)
(*               caller's config into the default config                   *)
(***************************************************************************)
EXTENDS Integers, Sequences, FiniteSets, TLC

\* ---------------------------------------------------------------- bounds
MaxNodes == 2
MaxRuns == 2
MaxFailures == 2
MaxRetriesCfg == 2
MaxBatchSize == 2
MaxErrors == 6
MaxFiles == 2
MaxRows == 2
MaxDays == 2
MaxCalls == 3
MaxMerges == 3
MaxRecords == 2

\* ------------------------------------------------------ program constants
\* delays in milliseconds
RateLimitDelay == 334
RetryDelay == 1000
\* notion_ops.py DEFAULT_CONFIG: "rate_limit_delay": 0.3
OpsRateLimitDelay == 300

NoParent == ""
\* a NaN Fase cell and a NaN Assignee cell
NoFase == ""
NoAssignee == ""
\* pages.create gives every page an id of its own: the id of the n-th
\* project page created in the Projects database
ProjectId(n) == IF n = 1 THEN "P" ELSE "P" \o ToString(n)
PID == ProjectId(1)
\* NotionOperator.create_project returns the page object of the project
\* (`return existing_project` / `return response`), not its id
ProjectPage(n) == "{'id': '" \o ProjectId(n) \o "'}"
NoCallYet == -1

Impls == {"app", "pkg", "ops", "task"}
ErrorKinds == {"transient", "structural"}

\* Rows of the Notion-ready structure (Tarefa, EDT, Type, Parent Task, Fase,
\* Assignee).
Row(title, edt, type, parent, fase, assignee) ==
    [title |-> title, edt |-> edt, type |-> type, parent |-> parent,
     fase |-> fase, assignee |-> assignee]
NodeUniverse ==
    { Row("A", "E1", "Fase", NoParent, NoFase, NoAssignee),
      Row("A", "E1", "Tarefa", NoParent, NoFase, NoAssignee),
      Row("B", "E2", "Tarefa", "E1", NoFase, NoAssignee),
      Row("C", "E3", "Tarefa", "E9", NoFase, NoAssignee) }

\* notion_ops.py reads the Fase and the Assignee cell of a row (and never
\* its Parent Task): rows with one Fase value, with one assignee name
OpsUniverse ==
    { Row("A", "E1", "Fase", NoParent, NoFase, NoAssignee),
      Row("A", "E1", "Tarefa", NoParent, NoFase, NoAssignee),
      Row("B", "E2", "Tarefa", "E1", NoFase, NoAssignee),
      Row("A", "E1", "Tarefa", NoParent, "F1", NoAssignee),
      Row("A", "E1", "Tarefa", NoParent, NoFase, "Ana") }

SheetsOf(universe) == UNION { [1..n -> universe] : n \in 1..MaxNodes }
Sheets == SheetsOf(NodeUniverse)

\* app.py shows `errors[-5:]`
ErrorTail == 5

\* a long sheet of top-level tasks with distinct codes, every row of which
\* may fail; it is uploaded by upload_tasks of app.py, the implementation
\* that keeps a list of error messages
LongCodes == <<"L1", "L2", "L3", "L4", "L5", "L6", "L7", "L8">>
LongSheets ==
    { [k \in 1..MaxErrors |->
         Row(LongCodes[k], LongCodes[k], "Tarefa", NoParent, NoFase,
             NoAssignee)] }

VARIABLES
    impl,            \* which implementation runs
    maxRetries,      \* api_settings.max_retries
    batch_size,      \* api_settings.batch_size (ops only)
    sheet,           \* the rows to upload, in row order
    run,             \* how many times the sheet has been submitted
    pc,              \* position in the upload / in create_or_update_task
    i,               \* loop index over the rows (1-based); "task": the row given
    store,           \* remote Tasks database: sequence of records, id = position
    projects,        \* number of remote project pages of this project
    project_id,      \* what create_project gave ("" before resolution)
    existing_task,   \* result of the existence lookup (record id, 0 = None)
    parent_task,     \* result of the parent lookup (record id, 0 = None)
    existing_tasks,  \* ops: result of find_tasks_batch
    batch_start,     \* ops: 0-based index of the first row of the current batch
    tasks_to_verify, \* ops: rows written in the current batch (none is)
    counts,          \* created / updated / skipped / failed / verification_failed
    task_ids,        \* pkg: ids returned by create_or_update_task
    errors,          \* app: error messages (EDT of the failing row)
    cur,             \* history: what happened so far to the row being processed
    nodeLog,         \* history: one entry per processed row of this run
    attempt,         \* handle_api_call: loop variable
    call,            \* history: the current / last remote call
    sinceDelay,      \* history: delay slept since the last remote call attempt
    throttled,       \* history: every attempt so far was preceded by a full delay
    failures,        \* number of failed attempts so far (bounded)
    uploaded_files,  \* app.py file loop: the files of the batch
    file_index,      \* app.py file loop: 1-based index of the current file
    fpc,             \* app.py file loop: position in the loop body
    file_status,     \* app.py file loop: what each file's status box shows
    clicked,         \* app.py: the file whose button was pressed (0 = none)
    overall_status,  \* app.py file loop: the overall status line
    classifier,      \* which classifier runs (one of Classifiers)
    data,            \* classifier: the rows of the cleaned sheet
    cidx,            \* classifier: 1-based index of the row being classified
    level_parents,   \* app.py classifier: the last code seen at each level
    data_with_types, \* classifier: the columns each row was given
    call_no,         \* classifier: which call of the function this is (1, 2)
    first_result,    \* history: what the first call returned
    date_fn,         \* dates: which date normalizer is called
    start_cell,      \* dates: the start cell of the row (a datetime or NaT)
    end_cell,        \* dates: the end cell of the row (a datetime or NaT)
    dpc,             \* dates: "idle" / "call" / "returned"
    date_range,      \* dates: what the normalizer gave
    status_fn,       \* status: which pipeline handles the cell
    status_cell,     \* status: the raw STATUS cell of the row
    spc,             \* status: "idle" / "cell" / "frame" / "emitted" / "raised"
    status_column,   \* status: the Status column handed to the uploader
    status_emitted,  \* status: the status name in the property bag
    used_names,      \* TaskNameGenerator.used_names
    npc,             \* names: "idle" / "ready" / "loop"
    base_name,       \* names: generate_unique_name's argument
    index,           \* names: generate_unique_name's loop variable
    name_call,       \* history: the last call (function, row, result)
    names,           \* history: the names returned since the last reset()
    cfg_fn,          \* config: whose defaults are merged ("pkg" / "ops")
    base_dicts,      \* config: the dicts nested in the default config
    self_config,     \* config: NotionOperator._config, key by key
    user_config,     \* config: the overrides self_config was merged with
    merges,          \* config: how many constructors and updates were called
    operator,        \* config: a NotionOperator was constructed
    cfg_raised       \* config: the exception the last call ended with

inputs == <<impl, maxRetries, batch_size, sheet>>
handlerVars == <<run, pc, i, store, projects, project_id, existing_task,
                 parent_task, existing_tasks, batch_start, tasks_to_verify, counts,
                 task_ids, errors, cur, nodeLog>>
apiVars == <<attempt, call, sinceDelay, throttled, failures>>
\* the variables of the stages that come before the upload of a sheet
fileVars == <<uploaded_files, file_index, fpc, file_status, overall_status,
              clicked>>
clsVars == <<classifier, data, cidx, level_parents, data_with_types, call_no,
            first_result>>
dateVars == <<date_fn, start_cell, end_cell, dpc, date_range>>
\* the variables of the functions that build the fields of one row
statusVars == <<status_fn, status_cell, spc, status_column, status_emitted>>
nameVars == <<used_names, npc, base_name, index, name_call, names>>
cfgVars == <<cfg_fn, base_dicts, self_config, user_config, merges, operator,
             cfg_raised>>
rowVars == <<dateVars, statusVars, nameVars, cfgVars>>
preVars == <<fileVars, clsVars, rowVars>>
vars == <<impl, maxRetries, batch_size, sheet, run, pc, i, store, projects, project_id,
          existing_task, parent_task, existing_tasks, batch_start,
          tasks_to_verify, counts, task_ids, errors, cur, nodeLog, attempt, call, sinceDelay,
          throttled, failures, preVars>>

Min(a, b) == IF a < b THEN a ELSE b

\* ---------------------------------------------------------- remote store
\* databases.query returns the matching records in store order; the callers
\* take results[0].
FirstMatch(hits) ==
    IF hits = {} THEN 0 ELSE CHOOSE k \in hits : \A j \in hits : k <= j

LastMatch(hits) ==
    IF hits = {} THEN 0 ELSE CHOOSE k \in hits : \A j \in hits : k >= j

\* app.py find_task_by_edt: filter on EDT only (no project filter).
find_task_by_edt_app(s, edt) ==
    FirstMatch({ k \in 1..Len(s) : s[k].edt = edt })

\* tasks.py find_existing_task: title, EDT and project.
find_existing_task(s, title, edt, pid) ==
    FirstMatch({ k \in 1..Len(s) :
                   s[k].title = title /\ s[k].edt = edt /\ s[k].project = pid })

\* tasks.py find_task_by_edt: EDT and project.
find_task_by_edt(s, edt, pid) ==
    FirstMatch({ k \in 1..Len(s) : s[k].edt = edt /\ s[k].project = pid })

\* properties sent by pages.create / pages.update: the parent relation is
\* the id the parent lookup returned, and empty when it returned None
PropertiesDangling(task, pid, rel) ==
    [title |-> task.title, edt |-> task.edt, type |-> task.type,
     project |-> pid,
     parent |-> IF rel = 0 /\ task.parent # NoParent THEN -1 ELSE rel,
     fase |-> task.fase]
Properties(task, pid, rel) ==
    [title |-> task.title, edt |-> task.edt, type |-> task.type,
     project |-> pid, parent |-> rel, fase |-> task.fase]

pages_create(s, props) == Append(s, props)

\* app.py update_task sends "Parent task": {"relation": parent_relation},
\* so an empty relation clears the stored one; it sends no Fase.
pages_update_app(s, id, props) ==
    [s EXCEPT ![id] = [props EXCEPT !.fase = s[id].fase]]

\* tasks.py / notion_ops.py send "Parent task" only when a parent was found
\* and Fase only when the cell holds a value; a property that is not sent
\* keeps its stored value.
pages_update(s, id, props) ==
    [s EXCEPT ![id] = [props EXCEPT
        !.parent = IF props.parent = 0 THEN s[id].parent ELSE props.parent,
        !.fase = IF props.fase = NoFase THEN s[id].fase ELSE props.fase]]

\* `tasks.iterrows()` / `tasks_df.iterrows()` / `batch_df.iterrows()`: the
\* row visited at loop position pos is row pos of the sheet.
RowAtReversed(pos) == Len(sheet) + 1 - pos
RowAt(pos) == pos

\* the composite key (title, project, EDT) of a row and of a record: the
\* three conditions of the filter of notion/tasks.py find_existing_task
\* (title equals, EDT equals, Project contains).  The keys notion_ops.py
\* builds have the Fase values as a fourth part (task_key, BatchKey).
TaskKey(task, pid) == <<task.title, pid, task.edt>>
RecordKey(r) == <<r.title, r.project, r.edt>>

\* --------------------------------------------------------------- history
\* matches: for each row whose existence lookup was invoked, the ids of the
\* records that carried the row's composite key at that moment;
\* target: the page id given to pages.update
NewEntry(j) ==
    [idx |-> j, found |-> FALSE, sameType |-> FALSE, lookupRaised |-> FALSE,
     matches |-> <<>>, target |-> 0,
     parentRes |-> "n/a", parentVisible |-> FALSE, wrote |-> "none",
     writeOk |-> FALSE, rel |-> 0, outcome |-> "pending"]

\* the ids of the records of s that carry the composite key of the row
Matches(s, task, pid) ==
    { k \in 1..Len(s) : RecordKey(s[k]) = TaskKey(task, pid) }

ZeroCounts ==
    [created |-> 0, updated |-> 0, skipped |-> 0, failed |-> 0,
     verification_failed |-> 0]

\* is the row's parent code visible in the store
ParentInStore(s, task) == \E k \in 1..Len(s) : s[k].edt = task.parent

\* --------------------------------------------------------- remote calls
\* api_settings.rate_limit_delay of the implementation that runs
rate_limit_delay ==
    IF impl \in {"ops", "task"} THEN OpsRateLimitDelay ELSE RateLimitDelay

\* the delay slept since the last attempt, counted up to the longest
\* configured interval
Slept(acc, d) == IF acc = NoCallYet THEN acc ELSE Min(acc + d, RateLimitDelay)

\* how many remote call attempts may fail in one behaviour
FailureBudget == IF Len(sheet) > MaxNodes THEN MaxErrors ELSE MaxFailures

\* an attempt is issued: was it preceded by a full minimum interval
IssueAttempt ==
    throttled' = (throttled /\ (sinceDelay = NoCallYet
                                \/ sinceDelay >= rate_limit_delay))

\* `if attempt == max_retries - 1: raise e`
LastAttemptNever(att, max) == att = max
LastAttempt(att, max) == att = max - 1

\* utils.py handle_api_call / notion_ops.py _handle_api_call: one iteration
\* of `for attempt in range(max_retries)`, or the fall-through when the
\* range is empty.
handle_api_call(OnOk, OnNone, OnRaise) ==
    LET errs == IF attempt = 0 THEN <<>> ELSE call.errs IN
    /\ UNCHANGED <<inputs, preVars>>
    /\ IF attempt >= maxRetries
       THEN /\ call' = [via |-> "handle_api_call", att |-> attempt,
                        status |-> "none", errs |-> errs, err |-> "none"]
            /\ UNCHANGED <<attempt, sinceDelay, throttled, failures>>
            /\ OnNone
       ELSE /\ IssueAttempt
            /\ \/ /\ call' = [via |-> "handle_api_call", att |-> attempt + 1,
                              status |-> "ok", errs |-> errs, err |-> "none"]
                  /\ attempt' = 0
                  /\ sinceDelay' = Slept(0, rate_limit_delay)
                  /\ UNCHANGED failures
                  /\ OnOk
               \/ \E kind \in ErrorKinds :
                  /\ failures < FailureBudget
                  /\ failures' = failures + 1
                  /\ IF LastAttempt(attempt, maxRetries)
                     THEN /\ call' = [via |-> "handle_api_call",
                                      att |-> attempt + 1, status |-> "raised",
                                      errs |-> Append(errs, kind), err |-> kind]
                          /\ attempt' = 0
                          /\ sinceDelay' = 0
                          /\ OnRaise
                     ELSE /\ call' = [via |-> "handle_api_call",
                                      att |-> attempt + 1, status |-> "running",
                                      errs |-> Append(errs, kind), err |-> "none"]
                          /\ attempt' = attempt + 1
                          /\ sinceDelay' = Slept(0, RetryDelay)
                          /\ UNCHANGED handlerVars

\* app.py calls notion.databases.query / notion.pages.* directly: one
\* attempt, no sleep.
direct_call(OnOk, OnRaise) ==
    /\ UNCHANGED <<inputs, preVars>>
    /\ IssueAttempt
    /\ sinceDelay' = 0
    /\ UNCHANGED attempt
    /\ \/ /\ call' = [via |-> "direct", att |-> 1, status |-> "ok",
                      errs |-> <<>>, err |-> "none"]
          /\ UNCHANGED failures
          /\ OnOk
       \/ \E kind \in ErrorKinds :
          /\ failures < FailureBudget
          /\ failures' = failures + 1
          /\ call' = [via |-> "direct", att |-> 1, status |-> "raised",
                      errs |-> <<kind>>, err |-> kind]
          /\ OnRaise

\* ----------------------------------------------- app.py: the file loop
\* a file of the batch: does its PLANEAMENTO sheet have a row containing
\* "FASES/TAREFAS", and do the other steps of process_excel succeed or
\* raise (they are not reached for a sheet without that row)
FileUniverse ==
    { [header |-> FALSE, rest |-> "unreached"],
      [header |-> TRUE, rest |-> "ok"],
      [header |-> TRUE, rest |-> "raises"] }
FileBatches == UNION { [1..n -> FileUniverse] : n \in 1..MaxFiles }

\* the code of the project: the EDT of the first row of the sheet, which
\* extract_project_info takes out of the rows; it is the ID of the project
\* page and the EDT of no task
ProjectCode == "E0"

\* the rows process_excel gives for a file that is processed: the workbooks
\* of a batch are exports of one project, a phase and a task under it.
\* classify_and_identify_parent_tasks has given the phase the row of the
\* project as its parent, and the task the phase.
FileSheet ==
    << Row("A", "E1", "Fase", ProjectCode, NoFase, NoAssignee),
       Row("B", "E2", "Tarefa", "E1", NoFase, NoAssignee) >>

\* the same, of a workbook whose first row after the project is two levels
\* below it: level_parents has nothing one level above and the row is
\* left without a parent
FileSheets ==
    { FileSheet,
      << Row("A", "E1", "Fase", NoParent, NoFase, NoAssignee),
         Row("B", "E2", "Tarefa", "E1", NoFase, NoAssignee) >> }

\* no batch of files is being processed
FilesIdle ==
    /\ uploaded_files = <<>>
    /\ file_index = 0
    /\ fpc = "idle"
    /\ file_status = <<>>
    /\ overall_status = "none"
    /\ clicked = 0

\* ------------------------------------------------------- the classifier
\* An EDT code is the sequence of its dot-separated segments:
\* "PR.0001.1.M" is <<"PR", "0001", "1", "M">>, so `edt.split('.')` is the
\* sequence itself and '.'.join(parts) a sequence again.  None is <<>>.
None == <<>>
CodeUniverse ==
    { <<"PR", "0001">>,
      <<"XX", "0001">>,
      <<"PR", "0001", "1">>,
      <<"PR", "0001", "M">>,
      <<"PR", "0001", "1", "1">>,
      <<"PR", "0001", "2", "1">>,
      <<"PR", "0001", "1", "M">>,
      <<"PR", "0001", "1", "1", "M">> }

\* title, RESPONSAVEL cell (filled or NaN) and TIPO cell of a row
RowVariants ==
    { [title |-> "Obra", responsavel |-> TRUE, tipo |-> "T"],
      [title |-> "Obra", responsavel |-> FALSE, tipo |-> "M"],
      [title |-> "MILESTONE: Entrega", responsavel |-> TRUE, tipo |-> "T"] }

RawRows ==
    { [edt |-> c, title |-> v.title, responsavel |-> v.responsavel,
       tipo |-> v.tipo] : c \in CodeUniverse, v \in RowVariants }
RawSheets == UNION { [1..n -> RawRows] : n \in 1..MaxRows }

\* who classifies: classify_and_identify_parent_tasks of app.py,
\* ExcelProcessor.process_excel_data, or a direct caller of
\* ExcelProcessor.get_parent_task
Classifiers == {"app", "excel", "get_parent_task"}

\* no sheet is being classified
ClassifierIdle ==
    /\ classifier = "none"
    /\ data = <<>>
    /\ cidx = 0
    /\ level_parents = <<>>
    /\ data_with_types = <<>>
    /\ call_no = 0
    /\ first_result = <<>>

\* parts[:-1]
Front(parts) == SubSeq(parts, 1, Len(parts) - 1)

\* `edt_str.endswith('.M')`
EndsWithDotM(edt) == Len(edt) >= 2 /\ edt[Len(edt)] = "M"

\* `edt.startswith('PR.')`
StartsWithPR(edt) == Len(edt) >= 2 /\ edt[1] = "PR"

\* str.isdigit() and len() of a segment of CodeUniverse
IsDigit(seg) == seg \in {"0001", "1", "2"}
SegLen(seg) == IF seg = "0001" THEN 4 ELSE IF seg \in {"PR", "XX"} THEN 2 ELSE 1

\* `"MILESTONE:" in task_name` (app.py) and `'MILESTONE' in title.upper()`
\* (excel/processor.py) for the titles of RowVariants
HasMilestoneMarker(title) == title = "MILESTONE: Entrega"

\* `str(parent_edt).rsplit('.', 1)[0]`
RsplitHead(edt) == IF Len(edt) >= 2 THEN Front(edt) ELSE edt

\* `s.startswith(p)` on the dotted strings: the leading segments of p are
\* those of s and the last segment of p begins the matching segment of s
\* (no segment of CodeUniverse is a proper textual prefix of another)
StartsWith(s, p) ==
    \/ p = <<>>
    \/ /\ Len(p) <= Len(s)
       /\ \A k \in 1..Len(p) : s[k] = p[k]

\* app.py classify_and_identify_parent_tasks: the Type of a row
AppTaskType(row) ==
    IF HasMilestoneMarker(row.title) THEN "Milestone"
    ELSE IF Len(row.edt) = 2 THEN "Fase"
    ELSE IF Len(row.edt) = 3 /\ IsDigit(row.edt[3]) /\ SegLen(row.edt[3]) <= 2
         THEN "Fase"
    ELSE IF ~row.responsavel THEN "Fase"
    ELSE "Tarefa"

\* app.py classify_and_identify_parent_tasks: Parent Task and Level of a
\* row, given the codes stored so far in level_parents
AppParentLevel(edt, lp) ==
    IF EndsWithDotM(edt)
    THEN LET edt_parts == Front(edt) IN
         IF Len(edt_parts) > 2
         THEN [Parent |-> Front(edt_parts), Level |-> Len(edt_parts) - 2]
         ELSE [Parent |-> None, Level |-> Len(edt_parts) - 1]
    ELSE LET level == Len(edt) - 1 IN
         [Parent |-> IF /\ level > 0
                        /\ (level - 1) \in DOMAIN lp
                        /\ StartsWith(edt, RsplitHead(lp[level - 1]))
                     THEN lp[level - 1] ELSE None,
          Level |-> level]

\* `del level_parents[l]` for l >= level, then `level_parents[level] = edt`
\* (rows ending in .M leave the dictionary alone)
StoreLevelParent(edt, lp) ==
    IF EndsWithDotM(edt) THEN lp
    ELSE LET level == Len(edt) - 1 IN
         [l \in { x \in DOMAIN lp : x < level } \cup {level} |->
             IF l = level THEN edt ELSE lp[l]]

\* excel/processor.py
is_project(row) == StartsWithPR(row.edt) /\ Len(row.edt) = 2
is_phase(row) == StartsWithPR(row.edt) /\ Len(row.edt) = 3
is_milestone(row) == EndsWithDotM(row.edt) \/ HasMilestoneMarker(row.title)

\* type_config.mappings
type_mapping(tipo) == IF tipo = "M" THEN "Milestone" ELSE "Tarefa"

get_type(row) ==
    IF is_milestone(row) THEN "Milestone"
    ELSE IF is_phase(row) THEN "Fase"
    ELSE type_mapping(row.tipo)

get_parent_task(edt) == IF Len(edt) <= 2 THEN None ELSE Front(edt)

\* ------------------------------------------------------------ the dates
\* A date cell is a datetime (day number and hour of the day) or NaT / NaN.
\* Day k is the k-th day of DayStr.
Hours == {0, 12}
NaT == [day |-> 0, hour |-> 0]
Datetimes == [day : 1..MaxDays, hour : Hours]
DateCells == Datetimes \cup {NaT}

\* `pd.notna(x)`, and the truth value of a datetime or None
notna(d) == d # NaT

\* `start > end` on datetimes
After(a, b) == a.day > b.day \/ (a.day = b.day /\ a.hour > b.hour)

\* `d.strftime("%Y-%m-%d")` and str() of a date: the day, without the hour
DayStr == <<"2024-05-01", "2024-05-10", "2024-05-20", "2024-05-30">>
strftime(d) == DayStr[d.day]

\* `pd.to_datetime(col).dt.date`: the date of a datetime, NaT stays NaT
ToDate(d) == IF notna(d) THEN [d EXCEPT !.hour = 0] ELSE NaT

\* None, or a key that is missing from the returned dict
NoStr == ""

DateFns == {"format_date_range", "create_date_range", "excel_processor",
            "validate_dates"}

Range(s, e) == [kind |-> "range", start |-> s, end |-> e]
NoRange == [kind |-> "none", start |-> NoStr, end |-> NoStr]
\* the call raised (UnboundLocalError)
Raised == [kind |-> "raised", start |-> NoStr, end |-> NoStr]
Unset == [kind |-> "unset", start |-> NoStr, end |-> NoStr]

\* no date normalizer is being called
DatesIdle ==
    /\ date_fn = "none"
    /\ start_cell = NaT
    /\ end_cell = NaT
    /\ dpc = "idle"
    /\ date_range = Unset

\* excel/processor.py format_date_range on the dict DateProcessor built
\* ({"start": start, "end": end}, absent when both are None)
format_date_range(start, end) ==
    IF ~notna(start) /\ ~notna(end) THEN NoRange
    ELSE IF notna(start) /\ ~notna(end)
         THEN Range(strftime(start), strftime(start))
    ELSE IF notna(end) /\ ~notna(start)
         THEN Range(strftime(end), strftime(end))
    ELSE IF After(start, end) THEN Range(strftime(end), strftime(start))
    ELSE Range(strftime(start), strftime(end))

\* notion/utils.py create_date_range: start_str / end_str are assigned only
\* under `if pd.notna(...)`, so reading one whose cell is NaN raises
\* UnboundLocalError.  `not start_str and not end_str` reads start_str first
\* and end_str only when start_str is falsy.
create_date_range(start, end) ==
    IF ~notna(start) THEN Raised
    ELSE IF ~notna(end) THEN Raised
    ELSE IF After(start, end) THEN Range(strftime(end), strftime(start))
    ELSE Range(strftime(start), strftime(end))

\* excel_processor.py create_date_range
excel_processor_create_date_range(start, end) ==
    IF notna(start)
    THEN Range(strftime(start), IF notna(end) THEN strftime(end) ELSE NoStr)
    ELSE IF notna(end) THEN Range(strftime(end), strftime(end))
    ELSE NoRange

\* app.py process_dates.validate_dates on the dates of the two cells
validate_dates(start, end) ==
    IF notna(start) /\ notna(end) /\ After(start, end)
    THEN [start |-> start, end |-> NaT]
    ELSE [start |-> start, end |-> end]

\* app.py: the "Datas planeadas" text of the validated dates
\* (f"{start} -> {end}" when the end is there, f"{start}" otherwise) and the
\* date property create_task / update_task split out of it
PlannedDates(start, end) ==
    LET v == validate_dates(ToDate(start), ToDate(end))
        text(d) == IF notna(d) THEN strftime(d) ELSE "None"
    IN Range(text(v.start), IF notna(v.end) THEN strftime(v.end) ELSE NoStr)

\* ----------------------------------------------------------- the status
\* a translation table is a set of <<key, image>> pairs
Keys(table) == { p[1] : p \in table }
\* `table.get(key, default)`
Get(table, key, default) ==
    IF key \in Keys(table) THEN (CHOOSE p \in table : p[1] = key)[2]
    ELSE default

\* config/config.py COMMON_CONFIG["status_config"]["mappings"], which is
\* ExcelConfig.status_mapping
status_mapping ==
    { <<"Not started", "Not started">>, <<"In progress", "In progress">>,
      <<"Done", "Done">>, <<"Concluído", "Done">>, <<"Canceled", "Canceled">>,
      <<"Archived", "Archived">>, <<"Blocked", "Blocked">>,
      <<"Parado", "Paused">> }

\* notion_ops.py NotionOperator._status_mappings
ops_status_mappings ==
    { <<"Não iniciado", "Not started">>, <<"Em curso", "In progress">>,
      <<"Concluído", "Done">>, <<"Bloqueado", "Blocked">>,
      <<"Not started", "Not started">>, <<"In progress", "In progress">>,
      <<"Done", "Done">>, <<"Blocked", "Blocked">> }

\* app.py STATUS_CONFIG["mapping"]
app_status_mapping ==
    { <<"Não iniciado", "Not started">>, <<"Em progresso", "In progress">>,
      <<"Em andamento", "In progress">>, <<"Concluído", "Done">>,
      <<"Pausado", "Paused">>, <<"PARADO", "Paused">>,
      <<"Cancelado", "Canceled">>, <<"Arquivado", "Archived">> }

\* status_config.default
DefaultStatus == "Not started"

\* an empty cell, a value no table knows, a known value with a trailing blank
NaN == "nan"
Padded == "Done "
StatusCells ==
    Keys(status_mapping) \cup Keys(ops_status_mappings)
        \cup Keys(app_status_mapping) \cup {NaN, "Em espera", Padded}

\* `str(value).strip()`
strip(v) ==
    IF v = Padded THEN "Done"
    ELSE IF v = "  " THEN ""
    ELSE IF v = " Obra " THEN "Obra"
    ELSE v

\* no Status key in the property bag
NoStatus == ""

\* "excel_pkg": excel/processor.py ExcelProcessor, then notion/tasks.py
\* "legacy_ops": excel_processor.py ExcelProcessor, then notion_ops.py
\* "app": app.py
StatusFns == {"excel_pkg", "legacy_ops", "app"}

\* the table each pipeline translates with
StatusTable(fn) ==
    IF fn = "excel_pkg" THEN status_mapping
    ELSE IF fn = "legacy_ops" THEN ops_status_mappings
    ELSE app_status_mapping

\* no status cell is being handled
StatusIdle ==
    /\ status_fn = "none"
    /\ status_cell = NaN
    /\ spc = "idle"
    /\ status_column = NaN
    /\ status_emitted = NoStatus

\* excel/processor.py: `raw_status.map(self.config.status_mapping)` gives
\* NaN for a value that is no key and for NaN, `.fillna(default_status)`
\* with `self.config.status_mapping.get("default", "Not started")`
map_fillna(v) ==
    LET mapped == IF v = NaN THEN NaN ELSE Get(status_mapping, v, NaN)
        default_status == Get(status_mapping, "default", "Not started")
    IN IF mapped = NaN THEN default_status ELSE mapped

\* notion/tasks.py _prepare_task_properties: a NaN value is skipped, any
\* other is used as it is
prepare_status(v) == IF v = NaN THEN NoStatus ELSE strip(v)

\* notion_ops.py create_task_properties and create_or_update_task, with
\* no stripping of the value before the lookup
create_status_exact(v) ==
    IF v = NaN THEN DefaultStatus
    ELSE Get(ops_status_mappings, v, DefaultStatus)

\* notion_ops.py create_task_properties and create_or_update_task: a NaN
\* value is skipped by the loop over the fields, any other is stripped and
\* looked up; `if "Status" not in properties` after the loop puts the
\* default status in the bag
create_status(v) ==
    LET in_loop == IF v = NaN THEN NoStatus
                   ELSE Get(ops_status_mappings, strip(v), DefaultStatus)
    IN IF in_loop = NoStatus THEN DefaultStatus ELSE in_loop

\* app.py update_task / upload_tasks:
\* `STATUS_CONFIG["mapping"].get(task["Status"], STATUS_CONFIG["default"])`
app_status(v) == Get(app_status_mapping, v, DefaultStatus)

\* ------------------------------------------------------------ the names
\* the FASES/TAREFAS cell and the EDT cell of a row, as get_task_name reads
\* them: missing (NaN), empty, blanks only, plain, padded with blanks, and
\* a title that reads like a name generate_unique_name makes
TitleCells == {NaN, "", "  ", "Obra", " Obra ", "Obra _1", "Obra _1 _1"}
EdtCells == {NaN, "PR.0001.1"}
NameRows == [title : TitleCells, edt : EdtCells, is_milestone : BOOLEAN]
NoRow == [title |-> NaN, edt |-> NaN, is_milestone |-> FALSE]

\* config/config.py task_naming
empty_task_prefix == "Task"
empty_milestone_prefix == "Milestone"
use_edt_as_fallback == TRUE
\* `unique_suffix_pattern.format(index=index)` for "_{index}"
unique_suffix(idx) == "_" \o ToString(idx)

\* `pd.isna(title) or str(title).strip() == ""`
IsBlank(title) == title = NaN \/ strip(title) = ""

\* get_task_name: the base name of a row, as if every title were usable
BaseNameOfTitleOnly(row) == IF row.title = NaN THEN "" ELSE strip(row.title)
\* get_task_name: the base name of a row
BaseName(row) ==
    LET prefix == IF row.is_milestone THEN empty_milestone_prefix
                  ELSE empty_task_prefix
    IN IF IsBlank(row.title)
       THEN IF use_edt_as_fallback /\ row.edt # NaN
            THEN prefix \o " " \o row.edt
            ELSE IF row.edt # NaN THEN prefix \o " " \o row.edt ELSE prefix
       ELSE strip(row.title)

\* generate_unique_name: `new_name = f"{base_name} {suffix}"`
new_name(base, idx) == base \o " " \o unique_suffix(idx)

NoNameCall == [fn |-> "none", row |-> NoRow, result |-> ""]

\* no name is being generated
NamesIdle ==
    /\ used_names = {}
    /\ npc = "idle"
    /\ base_name = ""
    /\ index = 0
    /\ name_call = NoNameCall
    /\ names = <<>>

\* ----------------------------------------------------------- the config
\* A config is a dict of dicts.  A nested dict is a set of <<field, value>>
\* pairs (values are written as text: the merge never computes with them).
\* The dicts nested in the default config are objects: the default config
\* and every shallow copy of it hold references to the same objects, and
\* base_dicts[key] is the present content of the object under `key`.
ConfigKeys == {"api_settings", "database_ids", "status_config"}

\* config/config.py NOTION_CONFIG (after line 332) and notion_ops.py
\* NotionOperator.DEFAULT_CONFIG, the three keys the model follows.  The
\* status_config of NOTION_CONFIG is the dict of COMMON_CONFIG, which
\* EXCEL_CONFIG holds too.
DefaultDicts(fn) ==
    IF fn = "pkg"
    THEN [api_settings |-> { <<"rate_limit_delay", "0.334">> },
          database_ids |-> { <<"projects", "544bf32b74694b6287112b40ac3b6f27">>,
                             <<"tasks", "012071410dfd4a4f857eefe333a5f6c4">> },
          status_config |-> { <<"default", "Not started">> }]
    ELSE [api_settings |-> { <<"rate_limit_delay", "0.3">>,
                             <<"max_retries", "3">> },
          database_ids |-> { <<"projects", "">>, <<"tasks", "">> },
          status_config |-> { <<"default", "Not started">> }]

\* what a caller may pass for a key: nothing, a dict of overrides, or a
\* value that is not a dict
Absent == [kind |-> "absent", items |-> {}]
DictOf(items) == [kind |-> "dict", items |-> items]
Scalar(v) == [kind |-> "scalar", items |-> { <<"", v>> }]
UserConfigs ==
    [api_settings : {Absent, Scalar("off"),
                     DictOf({ <<"rate_limit_delay", "1.0">> }),
                     DictOf({ <<"max_retries", "5">> })},
     database_ids : {Absent, Scalar("off"), DictOf({ <<"projects", "">> }),
                     DictOf({ <<"projects", "p1">>, <<"tasks", "t1">> })},
     status_config : {Absent, Scalar("off"),
                      DictOf({ <<"default", "Blocked">> })}]
NoOverrides == [k \in ConfigKeys |-> Absent]

\* the keys of a default config: EXCEL_CONFIG has the status_config of
\* COMMON_CONFIG and neither api_settings nor database_ids
BaseKeys(fn) == IF fn = "excel" THEN {"status_config"} ELSE ConfigKeys

\* `base_config.copy()`: a new outer dict whose values are the same objects
ShallowCopyOf(fn) ==
    [k \in ConfigKeys |->
        IF k \in BaseKeys(fn) THEN [kind |-> "base", items |-> {}] ELSE Absent]
ShallowCopy == ShallowCopyOf("pkg")

\* deep_update on a nested dict: `source[key] = value` for every item
UpdatedDict(d, items) == { q \in d : q[1] \notin Keys(items) } \cup items

\* deep_update(config, user_config), the config it returns: a key whose
\* override is a dict keeps its dict and has it updated, a key whose
\* override is no dict is rebound to the override
MergedConfig(config, user) ==
    [k \in ConfigKeys |->
        IF user[k].kind = "absent" THEN config[k]
        ELSE IF user[k].kind = "dict" /\ config[k].kind = "base" THEN config[k]
        ELSE user[k]]

\* deep_update(config, user_config), the objects it writes to: the update
\* of a dict that the config shares with the default config is an update
\* of the default config's dict
MergedBase(config, user, dicts) ==
    [k \in ConfigKeys |->
        IF user[k].kind = "dict" /\ config[k].kind = "base"
        THEN UpdatedDict(dicts[k], user[k].items)
        ELSE dicts[k]]

\* config[key][field] of an operator's config, "" when there is none
Setting(config, dicts, key, field) ==
    IF config[key].kind = "base" THEN Get(dicts[key], field, "")
    ELSE IF config[key].kind = "dict" THEN Get(config[key].items, field, "")
    ELSE ""

\* `config.get(key, {}).get(field, ...)` raises AttributeError when the
\* value under key is no dict: ProjectOperations.__init__ and
\* TaskOperations.__init__ read the three keys that way
sub_operators_raise(config) == \E k \in ConfigKeys : config[k].kind = "scalar"

\* _validate_config of both NotionOperators:
\* `if not self._config["database_ids"]["projects"]: raise ValueError`,
\* the same for "tasks"; indexing a value that is no dict is a TypeError.
\* "none" when it returns.
validate_config(config, dicts) ==
    IF config["database_ids"].kind = "scalar" THEN "TypeError"
    ELSE IF \/ Setting(config, dicts, "database_ids", "projects") = ""
            \/ Setting(config, dicts, "database_ids", "tasks") = ""
         THEN "ValueError"
    ELSE "none"

\* notion/api.py NotionOperator.__init__ after the merge: the
\* sub-operators are made (lines 27-28), then the config is validated
pkg_init_raises(config, dicts) ==
    IF sub_operators_raise(config) THEN "AttributeError"
    ELSE validate_config(config, dicts)

\* notion/api.py update_config after the merge: the config is validated
\* (line 80), then the sub-operators are made (lines 83-84)
pkg_update_raises(config, dicts) ==
    IF validate_config(config, dicts) # "none" THEN validate_config(config, dicts)
    ELSE IF sub_operators_raise(config) THEN "AttributeError"
    ELSE "none"

\* notion_ops.py NotionOperator.__init__ after the merge: the config is
\* validated (line 72), then `api_settings.get(...)` (lines 84-88) and
\* `status_config.get(...)` (lines 91-92) are read
ops_init_raises(config, dicts) ==
    IF validate_config(config, dicts) # "none" THEN validate_config(config, dicts)
    ELSE IF config["api_settings"].kind = "scalar"
            \/ config["status_config"].kind = "scalar"
         THEN "AttributeError"
    ELSE "none"

\* config/config.py create_excel_config on the merged config:
\* `config["status_config"]["mappings"]` is a TypeError when status_config
\* was rebound to a value that is no dict; it reads none of the settings
\* the model follows
create_excel_config_raises(config) ==
    IF config["status_config"].kind = "scalar" THEN "TypeError" ELSE "none"

\* no config is being merged
ConfigIdle ==
    /\ cfg_fn = "none"
    /\ base_dicts = DefaultDicts("pkg")
    /\ self_config = ShallowCopy
    /\ user_config = NoOverrides
    /\ merges = 0
    /\ operator = FALSE
    /\ cfg_raised = "none"

\* no stage that builds a field of a row is running
RowStagesIdle == DatesIdle /\ StatusIdle /\ NamesIdle /\ ConfigIdle

\* ------------------------------------------------------------------ Init
Init ==
    /\ impl \in Impls
    /\ maxRetries \in 0..MaxRetriesCfg
    /\ (impl = "app" => maxRetries = 1)
    /\ batch_size \in 1..MaxBatchSize
    /\ (impl # "ops" => batch_size = 1)
    /\ sheet \in (IF impl = "app" THEN Sheets \cup LongSheets
                  ELSE IF impl = "pkg" THEN Sheets
                  ELSE SheetsOf(OpsUniverse))
    /\ run = 1
    /\ pc = IF impl = "task" THEN "task_idle" ELSE "find_project"
    /\ i = 1
    /\ store = <<>>
    /\ projects = 0
    /\ project_id = IF impl = "task" THEN PID ELSE ""
    /\ existing_task = 0
    /\ parent_task = 0
    /\ existing_tasks = <<>>
    /\ batch_start = 0
    /\ tasks_to_verify = <<>>
    /\ counts = ZeroCounts
    /\ task_ids = <<>>
    /\ errors = <<>>
    /\ cur = NewEntry(RowAt(1))
    /\ nodeLog = <<>>
    /\ attempt = 0
    /\ call = [via |-> "init", att |-> 0, status |-> "init", errs |-> <<>>,
               err |-> "none"]
    /\ sinceDelay = NoCallYet
    /\ throttled = TRUE
    /\ failures = 0
    /\ FilesIdle
    /\ ClassifierIdle
    /\ RowStagesIdle

\* the upload stops: the exception propagates out of create_project_with_tasks
\* (app.py: out of the `try` of the file loop)
AbortContinue(log) ==
    /\ pc' = IF impl = "ops" THEN "batch_find" ELSE "find_task"
    /\ nodeLog' = log
    /\ UNCHANGED <<run, i, store, projects, project_id, existing_task,
                   parent_task, existing_tasks, batch_start, tasks_to_verify,
                   counts, task_ids, errors, cur>>
Abort(log) ==
    /\ pc' = "aborted"
    /\ nodeLog' = log
    /\ UNCHANGED <<run, i, store, projects, project_id, existing_task,
                   parent_task, existing_tasks, batch_start, tasks_to_verify,
                   counts, task_ids, errors, cur>>

\* ------------------------------------------- app.py project resolution
\* project_matches = search_project(project_info["EDT"]); the user selects
\* a matching project or "Create a new project".  The matches carry the
\* same project name, and `project_ids[project_name] = match["id"]` keeps
\* the id of the last of them.  An exception leaves the `try` of the file
\* loop before upload_tasks is called.  Within the file loop the buttons
\* are False unless the script runs because this file's button was pressed.
Pressed == fpc # "notion" \/ clicked = file_index
AppSearchProject ==
    /\ impl = "app" /\ pc = "find_project"
    /\ direct_call(
            /\ \/ /\ Pressed
                  /\ projects > 0
                  /\ project_id' = ProjectId(projects)
                  /\ pc' = "find_task"
               \/ /\ Pressed
                  /\ UNCHANGED project_id
                  /\ pc' = "create_project"
               \/ /\ ~Pressed
                  /\ UNCHANGED project_id
                  /\ pc' = "no_click"
            /\ UNCHANGED <<run, i, store, projects, existing_task, parent_task,
                           existing_tasks, batch_start, tasks_to_verify, counts,
                           task_ids, errors, cur, nodeLog>>,
            Abort(nodeLog))

\* new_project = create_project(project_info)
AppCreateProject ==
    /\ impl = "app" /\ pc = "create_project"
    /\ direct_call(
            /\ projects' = projects + 1
            /\ project_id' = ProjectId(projects + 1)
            /\ pc' = "find_task"
            /\ UNCHANGED <<run, i, store, existing_task, parent_task,
                           existing_tasks, batch_start, tasks_to_verify, counts,
                           task_ids, errors, cur, nodeLog>>,
            Abort(nodeLog))

\* ------------------------------------------------- app.py upload_tasks
\* the loop `for idx, (_, task) in enumerate(tasks.iterrows())`
NextIndex(j) == j + 1

\* the row is finished with entry e: move to the next row or to the summary
AppNextTask(e) ==
    /\ nodeLog' = Append(nodeLog, e)
    /\ i' = NextIndex(i)
    /\ cur' = NewEntry(RowAt(NextIndex(i)))
    /\ pc' = IF NextIndex(i) > Len(sheet) THEN "summary" ELSE "find_task"
    /\ existing_task' = 0
    /\ parent_task' = 0

\* `error_count += 1` (app.py) / `failed_count += 1` (notion_ops.py)
FailedUncounted(c) == c
Failed(c) == [c EXCEPT !.failed = @ + 1]

\* `except Exception as e: error_count += 1; errors.append(...)`
AppError(e) ==
    /\ counts' = Failed(counts)
    /\ errors' = Append(errors, sheet[RowAt(i)].edt)
    /\ AppNextTask([e EXCEPT !.outcome = "failed"])
    /\ UNCHANGED <<run, store, projects, project_id, existing_tasks,
                   batch_start, tasks_to_verify, task_ids>>

\* `errors[-5:]` and the "... and k more errors" line of the error
\* container: the messages shown and the number of messages left out
error_text(errs) ==
    [shown |-> SubSeq(errs, IF Len(errs) > ErrorTail
                            THEN Len(errs) - ErrorTail + 1 ELSE 1, Len(errs)),
     more |-> IF Len(errs) > ErrorTail THEN Len(errs) - ErrorTail ELSE 0]

\* task_id = find_task_by_edt(task["EDT"])
AppFindTask ==
    /\ impl = "app" /\ pc = "find_task"
    /\ LET task == sheet[RowAt(i)]
           id == find_task_by_edt_app(store, task.edt)
           seen == RowAt(i) :> Matches(store, task, project_id)
           e == [cur EXCEPT !.found = (id # 0), !.matches = seen,
                            !.sameType = (id # 0 /\ store[id].type = task.type)]
       IN direct_call(
            /\ existing_task' = id
            /\ cur' = e
            /\ pc' = IF task.parent # NoParent THEN "find_parent" ELSE "write"
            /\ UNCHANGED <<run, i, store, projects, project_id, parent_task,
                           existing_tasks, batch_start, tasks_to_verify, counts, task_ids,
                           errors, nodeLog>>,
            AppError([cur EXCEPT !.lookupRaised = TRUE, !.matches = seen]))

\* `if task["Parent Task"]: parent_task_id = find_task_by_edt(...)`
AppFindParent ==
    /\ impl = "app" /\ pc = "find_parent"
    /\ LET task == sheet[RowAt(i)]
           id == find_task_by_edt_app(store, task.parent)
       IN direct_call(
            /\ parent_task' = id
            /\ cur' = [cur EXCEPT !.parentRes = IF id = 0 THEN "none" ELSE "found"]
            /\ pc' = "write"
            /\ UNCHANGED <<run, i, store, projects, project_id, existing_task,
                           existing_tasks, batch_start, tasks_to_verify, counts, task_ids,
                           errors, nodeLog>>,
            AppError([cur EXCEPT !.parentRes = "raised"]))

\* update_task(task_id, ...) / notion.pages.create(...)
AppWrite ==
    /\ impl = "app" /\ pc = "write"
    /\ LET task == sheet[RowAt(i)]
           props == Properties(task, project_id, parent_task)
           kind == IF existing_task # 0 THEN "update" ELSE "create"
           e == [cur EXCEPT !.wrote = kind, !.rel = props.parent,
                            !.target = existing_task,
                            !.parentVisible = ParentInStore(store, task)]
       IN direct_call(
            /\ store' = IF existing_task # 0
                        THEN pages_update_app(store, existing_task, props)
                        ELSE pages_create(store, props)
            /\ counts' = IF existing_task # 0
                         THEN [counts EXCEPT !.updated = @ + 1]
                         ELSE [counts EXCEPT !.created = @ + 1]
            /\ AppNextTask([e EXCEPT !.writeOk = TRUE,
                                     !.outcome = IF existing_task # 0
                                                 THEN "updated" ELSE "created"])
            /\ UNCHANGED <<run, projects, project_id, existing_tasks,
                           batch_start, tasks_to_verify, task_ids, errors>>,
            AppError(e))

\* ------------- notion/projects.py + notion/tasks.py ("pkg" implementation)
\* ProjectOperations.find_existing_project, called by create_project: it
\* gives response['results'][0], the first page; any exception (and the
\* TypeError on a None response) is logged and None is returned, so
\* create_project goes on to create.
PkgFindProject ==
    /\ impl = "pkg" /\ pc = "find_project"
    /\ LET Rest == UNCHANGED <<run, i, store, projects, existing_task,
                               parent_task, existing_tasks, batch_start,
                               tasks_to_verify, counts, task_ids, errors, cur,
                               nodeLog>>
           NotFound == /\ pc' = "create_project"
                       /\ UNCHANGED project_id
                       /\ Rest
       IN handle_api_call(
            /\ IF projects > 0
               THEN pc' = "find_task" /\ project_id' = PID
               ELSE pc' = "create_project" /\ UNCHANGED project_id
            /\ Rest,
            NotFound,
            NotFound)

\* ProjectOperations.create_project: pages.create of the project record,
\* a further page with an id of its own also when the query of
\* find_existing_project failed and the project has a page already; an
\* empty response or an exception is re-raised.
PkgCreateProject ==
    /\ impl = "pkg" /\ pc = "create_project"
    /\ handle_api_call(
            /\ projects' = projects + 1
            /\ project_id' = ProjectId(projects + 1)
            /\ pc' = "find_task"
            /\ UNCHANGED <<run, i, store, existing_task, parent_task,
                           existing_tasks, batch_start, tasks_to_verify, counts,
                           task_ids, errors, cur, nodeLog>>,
            Abort(nodeLog),
            Abort(nodeLog))

\* TaskOperations.find_existing_task (every row of the universe carries an
\* EDT, so `if edt` holds): exceptions are swallowed and None is returned.
PkgFindTask ==
    /\ impl = "pkg" /\ pc = "find_task"
    /\ LET task == sheet[RowAt(i)]
           id == find_existing_task(store, task.title, task.edt, project_id)
           Rest == UNCHANGED <<run, i, store, projects, project_id,
                               parent_task, existing_tasks, batch_start,
                               tasks_to_verify, counts, task_ids, errors,
                               nodeLog>>
           Go == pc' = IF task.parent # NoParent THEN "find_parent" ELSE "write"
           seen == RowAt(i) :> Matches(store, task, project_id)
       IN handle_api_call(
            /\ existing_task' = id
            /\ cur' = [cur EXCEPT !.found = (id # 0), !.matches = seen,
                          !.sameType = (id # 0 /\ store[id].type = task.type)]
            /\ Go /\ Rest,
            /\ existing_task' = 0
            /\ cur' = [cur EXCEPT !.matches = seen]
            /\ Go /\ Rest,
            /\ existing_task' = 0
            /\ cur' = [cur EXCEPT !.lookupRaised = TRUE, !.matches = seen]
            /\ Go /\ Rest)

\* TaskOperations.create_task_properties: parent lookup by find_task_by_edt,
\* which also swallows exceptions; a missing parent only logs a warning.
PkgFindParent ==
    /\ impl = "pkg" /\ pc = "find_parent"
    /\ LET task == sheet[RowAt(i)]
           id == find_task_by_edt(store, task.parent, project_id)
           Rest == /\ pc' = "write"
                   /\ UNCHANGED <<run, i, store, projects, project_id,
                                  existing_task, existing_tasks, batch_start,
                                  tasks_to_verify, counts, task_ids, errors,
                                  nodeLog>>
       IN handle_api_call(
            /\ parent_task' = id
            /\ cur' = [cur EXCEPT !.parentRes = IF id = 0 THEN "none" ELSE "found"]
            /\ Rest,
            /\ parent_task' = 0
            /\ cur' = [cur EXCEPT !.parentRes = "none"]
            /\ Rest,
            /\ parent_task' = 0
            /\ cur' = [cur EXCEPT !.parentRes = "raised"]
            /\ Rest)

\* the row is finished with entry e (create_or_update_task returned an id)
PkgNextTask(e, id) ==
    /\ nodeLog' = Append(nodeLog, e)
    /\ task_ids' = Append(task_ids, id)
    /\ i' = NextIndex(i)
    /\ cur' = NewEntry(RowAt(NextIndex(i)))
    /\ pc' = IF NextIndex(i) > Len(sheet) THEN "summary" ELSE "find_task"
    /\ existing_task' = 0
    /\ parent_task' = 0
    /\ UNCHANGED <<run, projects, project_id, existing_tasks, batch_start,
                   tasks_to_verify, counts, errors>>

\* TaskOperations.create_or_update_task: pages.update when a record was
\* found, pages.create otherwise; an exception is re-raised, and
\* ProjectOperations.create_project_with_tasks re-raises it in turn.
PkgWrite ==
    /\ impl = "pkg" /\ pc = "write"
    /\ LET task == sheet[RowAt(i)]
           props == Properties(task, project_id, parent_task)
           kind == IF existing_task # 0 THEN "update" ELSE "create"
           e == [cur EXCEPT !.wrote = kind, !.rel = props.parent,
                            !.target = existing_task,
                            !.parentVisible = ParentInStore(store, task)]
           failed == [e EXCEPT !.outcome = "failed"]
       IN handle_api_call(
            /\ store' = IF existing_task # 0
                        THEN pages_update(store, existing_task, props)
                        ELSE pages_create(store, props)
            /\ PkgNextTask([e EXCEPT !.writeOk = TRUE,
                               !.outcome = IF existing_task # 0
                                           THEN "updated" ELSE "created"],
                           IF existing_task # 0 THEN existing_task
                           ELSE Len(store) + 1),
            IF existing_task # 0
            THEN /\ UNCHANGED store
                 /\ PkgNextTask([e EXCEPT !.outcome = "updated"], existing_task)
            ELSE Abort(Append(nodeLog, failed)),
            Abort(Append(nodeLog, failed)))

\* ------------------------------ notion_ops.py ("ops" implementation)
\* `batch_end = min(batch_start + batch_size, total_tasks)`
BatchEnd == Min(batch_start + batch_size, Len(sheet))
AfterBatchPc == IF BatchEnd < Len(sheet) THEN "batch_sleep" ELSE "summary"

\* `task_key = (task_name, project_id, edt, ",".join(sorted(fase_values)))`
task_key(task, pid) == <<task.title, pid, task.edt, task.fase>>

\* a dict is not hashable: a tuple that holds the page object cannot be
\* looked up in a dict
hashable(key) ==
    \A part \in DOMAIN key : key[part] \notin { ProjectPage(n) : n \in 1..projects }

\* the Fase conditions of a query: `multi_select contains` for the value
\* of the row's Fase cell, no condition when the cell is NaN
FaseMatches(task, r) == task.fase = NoFase \/ r.fase = task.fase

\* the key of a result in found_tasks: (name, project, EDT, Fase values)
BatchKey(r) == <<r.title, r.project, r.edt, r.fase>>

\* NotionOperator.find_tasks_batch: one OR query for the rows of the batch,
\* the Project relation of each condition being `contains: project_id`;
\* `found_tasks[key] = result` keeps the last result of each key.
find_tasks_batch(s, rows, pid) ==
    LET results == { k \in 1..Len(s) : \E j \in rows :
                        /\ s[k].title = sheet[j].title
                        /\ s[k].project = pid
                        /\ s[k].edt = sheet[j].edt
                        /\ FaseMatches(sheet[j], s[k]) }
    IN [key \in { BatchKey(s[k]) : k \in results } |->
          LET id == LastMatch({ k \in results : BatchKey(s[k]) = key })
          IN [id |-> id, type |-> s[id].type]]

\* where the handling of row j begins: the "people" branch of the property
\* loop calls get_user_id for the name in a filled Assignee cell before
\* anything else is asked of the remote
RowPc(j, ask, go) == IF sheet[j].assignee # NoAssignee THEN ask ELSE go

\* NotionOperator.find_existing_project, called by create_project: it
\* returns response['results'][0], the page object, and create_project
\* returns that object
OpsFindProject ==
    /\ impl = "ops" /\ pc = "find_project"
    /\ LET Rest == UNCHANGED <<run, i, store, projects, existing_task,
                               parent_task, existing_tasks, batch_start,
                               tasks_to_verify, counts, task_ids, errors, cur,
                               nodeLog>>
           NotFound == /\ pc' = "create_project"
                       /\ UNCHANGED project_id
                       /\ Rest
       IN handle_api_call(
            /\ IF projects > 0
               THEN pc' = "batch_find" /\ project_id' = ProjectPage(1)
               ELSE pc' = "create_project" /\ UNCHANGED project_id
            /\ Rest,
            NotFound,
            NotFound)

\* NotionOperator.create_project: `return response`, the page object that
\* pages.create gave; a None response makes create_project_with_tasks
\* raise "Failed to create project".
OpsCreateProject ==
    /\ impl = "ops" /\ pc = "create_project"
    /\ handle_api_call(
            /\ projects' = projects + 1
            /\ project_id' = ProjectPage(projects + 1)
            /\ pc' = "batch_find"
            /\ UNCHANGED <<run, i, store, existing_task, parent_task,
                           existing_tasks, batch_start, tasks_to_verify, counts,
                           task_ids, errors, cur, nodeLog>>,
            Abort(nodeLog),
            Abort(nodeLog))

\* existing_tasks = self.find_tasks_batch(tasks_to_find); an exception (or a
\* None response) gives {}.  No record's Project relation holds the page
\* object, so the query that succeeds finds nothing either.
OpsFindBatch ==
    /\ impl = "ops" /\ pc = "batch_find"
    /\ LET rows == { RowAt(j) : j \in (batch_start + 1)..BatchEnd }
           Rest == /\ pc' = RowPc(RowAt(batch_start + 1), "get_user", "process")
                   /\ i' = batch_start + 1
                   /\ tasks_to_verify' = <<>>
                   /\ UNCHANGED <<run, store, projects, project_id,
                                  existing_task, parent_task, batch_start,
                                  counts, task_ids, errors, nodeLog>>
           seen == [j \in rows |-> Matches(store, sheet[j], project_id)]
           first == [NewEntry(RowAt(batch_start + 1)) EXCEPT !.matches = seen]
       IN handle_api_call(
            /\ existing_tasks' = find_tasks_batch(store, rows, project_id)
            /\ cur' = first
            /\ Rest,
            /\ existing_tasks' = <<>>
            /\ cur' = first
            /\ Rest,
            /\ existing_tasks' = <<>>
            /\ cur' = [first EXCEPT !.lookupRaised = TRUE]
            /\ Rest)

\* end of one iteration of `for _, task in batch_df.iterrows()`; no row
\* was appended to tasks_to_verify, so `if tasks_to_verify:` (line 723)
\* skips the verification of the batch
OpsNextTask(e) ==
    /\ nodeLog' = Append(nodeLog, e)
    /\ i' = NextIndex(i)
    /\ cur' = [NewEntry(RowAt(NextIndex(i))) EXCEPT
                  !.lookupRaised = (i < BatchEnd /\ cur.lookupRaised),
                  !.matches = IF i < BatchEnd THEN cur.matches ELSE <<>>]
    /\ pc' = IF i < BatchEnd
             THEN RowPc(RowAt(NextIndex(i)), "get_user", "process")
             ELSE AfterBatchPc
    /\ UNCHANGED <<run, projects, project_id, existing_task, parent_task,
                   existing_tasks, batch_start, tasks_to_verify, task_ids,
                   errors>>

\* NotionOperator.get_user_id, called by create_task_properties (line 665
\* of the task loop) and by create_or_update_task for the name in the
\* Assignee cell: `self._handle_api_call(self.notion.users.list)`.  A None
\* response and an exception give None, and the row goes on without the
\* people property.
OpsGetUserId ==
    /\ impl \in {"ops", "task"}
    /\ pc = (IF impl = "ops" THEN "get_user" ELSE "task_get_user")
    /\ LET Rest == /\ pc' = IF impl = "ops" THEN "process" ELSE "task_find"
                   /\ UNCHANGED <<run, i, store, projects, project_id,
                                  existing_task, parent_task, existing_tasks,
                                  batch_start, tasks_to_verify, counts,
                                  task_ids, errors, cur, nodeLog>>
       IN handle_api_call(Rest, Rest, Rest)

\* the rest of one iteration of the task loop (lines 660-720): task_key
\* holds project_id, the page object, so `existing_tasks.get(task_key)`
\* (line 672) raises TypeError (unhashable type: 'dict'), and the outer
\* `except` (lines 717-720) counts the row as failed.  The comparison, the
\* update, the skip and the create of lines 674-715 come after that lookup.
OpsProcessTask ==
    /\ impl = "ops" /\ pc = "process"
    /\ ~hashable(task_key(sheet[RowAt(i)], project_id))
    /\ counts' = Failed(counts)
    /\ OpsNextTask([cur EXCEPT !.outcome = "failed"])
    /\ UNCHANGED store
    /\ UNCHANGED apiVars
    /\ UNCHANGED <<inputs, preVars>>

\* `if batch_end < total_tasks: time.sleep(self._rate_limit_delay)` and the
\* next step of `for batch_start in range(0, total_tasks, batch_size)`
OpsBatchDelay ==
    /\ impl = "ops" /\ pc = "batch_sleep"
    /\ sinceDelay' = Slept(sinceDelay, rate_limit_delay)
    /\ batch_start' = batch_start + batch_size
    /\ pc' = "batch_find"
    /\ UNCHANGED <<run, i, store, projects, project_id, existing_task,
                   parent_task, existing_tasks, tasks_to_verify, counts,
                   task_ids, errors, cur, nodeLog>>
    /\ UNCHANGED <<attempt, call, throttled, failures>>
    /\ UNCHANGED <<inputs, preVars>>

\* ---------------- notion_ops.py: NotionOperator.create_or_update_task
\* create_or_update_task(task_data, project_id) is called with a row of
\* the sheet and the id of the project; lines 313-438 build the property
\* bag, with a call of get_user_id when the Assignee cell is filled
OpsCreateOrUpdateTask ==
    /\ impl = "task"
    /\ pc \in {"task_idle", "task_returned", "task_raised"}
    /\ Len(store) < MaxRecords
    /\ \E j \in 1..Len(sheet) :
          /\ i' = j
          /\ pc' = RowPc(j, "task_get_user", "task_find")
    /\ existing_task' = 0
    /\ UNCHANGED <<run, store, projects, project_id, parent_task,
                   existing_tasks, batch_start, tasks_to_verify, counts,
                   task_ids, errors, cur, nodeLog>>
    /\ UNCHANGED apiVars
    /\ UNCHANGED <<inputs, preVars>>

\* NotionOperator.find_task_by_name_and_project: title, project, EDT and
\* the Fase of the row when its cell holds one; `results[0] if results
\* else None`, and None when the query raised.
find_task_by_name_and_project(s, task_name, pid, task_data) ==
    FirstMatch({ k \in 1..Len(s) :
                   /\ s[k].title = task_name
                   /\ s[k].project = pid
                   /\ s[k].edt = task_data.edt
                   /\ FaseMatches(task_data, s[k]) })

\* existing_task = self.find_task_by_name_and_project(...) (line 441)
OpsFindTask ==
    /\ impl = "task" /\ pc = "task_find"
    /\ LET task_data == sheet[i]
           id == find_task_by_name_and_project(store, task_data.title,
                                               project_id, task_data)
           Rest == /\ pc' = "task_write"
                   /\ UNCHANGED <<run, i, store, projects, project_id,
                                  parent_task, existing_tasks, batch_start,
                                  tasks_to_verify, counts, task_ids, errors,
                                  cur, nodeLog>>
       IN handle_api_call(
            existing_task' = id /\ Rest,
            existing_task' = 0 /\ Rest,
            existing_task' = 0 /\ Rest)

\* lines 443-470: a found task is always updated (nothing is compared),
\* otherwise the task is created; the id is returned, an exception is
\* re-raised.  A None response raises in `response["id"]` of the create.
OpsWrite ==
    /\ impl = "task" /\ pc = "task_write"
    /\ LET task_data == sheet[i]
           props == Properties(task_data, project_id, 0)
           Rest == UNCHANGED <<run, i, projects, project_id, existing_task,
                               parent_task, existing_tasks, batch_start,
                               tasks_to_verify, counts, task_ids, errors, cur,
                               nodeLog>>
           Raise == pc' = "task_raised" /\ UNCHANGED store /\ Rest
       IN handle_api_call(
            /\ store' = IF existing_task # 0
                        THEN pages_update(store, existing_task, props)
                        ELSE pages_create(store, props)
            /\ pc' = "task_returned"
            /\ Rest,
            IF existing_task # 0
            THEN pc' = "task_returned" /\ UNCHANGED store /\ Rest
            ELSE Raise,
            Raise)

\* "Upload Complete!" summary
FinalSummary ==
    /\ pc = "summary"
    /\ pc' = "done"
    /\ UNCHANGED <<run, i, store, projects, project_id, existing_task,
                   parent_task, existing_tasks, batch_start, tasks_to_verify,
                   counts, task_ids, errors, cur, nodeLog>>
    /\ UNCHANGED apiVars
    /\ UNCHANGED <<inputs, preVars>>

\* how often a sheet is submitted: the long sheet once
RunBudget == IF Len(sheet) > MaxNodes THEN 1 ELSE MaxRuns

\* the locals of an upload are those of a new call; the remote is as the
\* calls before left it
NewUpload(at) ==
    /\ pc' = at
    /\ i' = 1
    /\ project_id' = ""
    /\ existing_task' = 0
    /\ parent_task' = 0
    /\ existing_tasks' = <<>>
    /\ batch_start' = 0
    /\ tasks_to_verify' = <<>>
    /\ counts' = ZeroCounts
    /\ task_ids' = <<>>
    /\ errors' = <<>>
    /\ cur' = NewEntry(RowAt(1))
    /\ nodeLog' = <<>>
    /\ UNCHANGED <<store, projects>>

\* the same sheet is submitted again against the same store
Resubmit ==
    /\ pc \in {"done", "aborted"}
    /\ run < RunBudget
    /\ run' = run + 1
    /\ NewUpload("find_project")
    /\ UNCHANGED apiVars
    /\ UNCHANGED <<inputs, preVars>>

\* --------------------------------------------- app.py: batch of files
\* no upload is running: the rows at hand and the project pages in Notion
UploadAt(rows, pages) ==
    /\ impl = "app" /\ maxRetries = 1 /\ batch_size = 1
    /\ sheet = rows
    /\ run = 1 /\ pc = "idle" /\ i = 1
    /\ store = <<>> /\ projects = pages /\ project_id = ""
    /\ existing_task = 0 /\ parent_task = 0 /\ existing_tasks = <<>>
    /\ batch_start = 0 /\ tasks_to_verify = <<>>
    /\ counts = ZeroCounts /\ task_ids = <<>> /\ errors = <<>>
    /\ cur = NewEntry(1) /\ nodeLog = <<>>
    /\ attempt = 0
    /\ call = [via |-> "init", att |-> 0, status |-> "init", errs |-> <<>>,
               err |-> "none"]
    /\ sinceDelay = NoCallYet /\ throttled = TRUE /\ failures = 0
UploadIdle == UploadAt(<<>>, 0)

uploadVars == <<inputs, handlerVars, apiVars>>

\* the script runs for the first time on a batch: `if uploaded_files:` ...
\* `for file_index, uploaded_file in enumerate(uploaded_files, 1)`; the
\* project of the workbooks has a page in Notion or has none
FileInit ==
    /\ \E pages \in 0..1 : \E rows \in FileSheets : UploadAt(rows, pages)
    /\ ClassifierIdle
    /\ RowStagesIdle
    /\ uploaded_files \in FileBatches
    /\ file_index = 1
    /\ fpc = "load"
    /\ file_status = <<>>
    /\ overall_status = "none"
    /\ clicked = 0

\* end of the loop body: overall_status.text(f"Processed {file_index} of
\* {total_files} files") and the next file
NextFileSkipping ==
    /\ overall_status' = "processed"
    /\ file_index' = Len(uploaded_files) + 1
    /\ fpc' = "after_loop"
NextFile ==
    /\ overall_status' = "processed"
    /\ file_index' = file_index + 1
    /\ fpc' = IF file_index < Len(uploaded_files) THEN "load" ELSE "after_loop"

\* process_excel -> load_and_clean_sheet: `mask.loc[mask].index.tolist()[0]`
\* raises IndexError when no row contains "FASES/TAREFAS"; the exception is
\* re-raised and caught by `except Exception as e: file_status.error(...)`
\* of the loop body.
LoadAndCleanSheet ==
    /\ fpc = "load"
    /\ IF uploaded_files[file_index].header
       THEN /\ fpc' = "rest"
            /\ UNCHANGED <<file_index, file_status, overall_status>>
       ELSE /\ file_status' = Append(file_status, "error")
            /\ NextFile
    /\ UNCHANGED <<uploaded_files, clicked, uploadVars, clsVars, rowVars>>

\* the other steps of process_excel, then file_status.success(...) and
\* st.dataframe(processed_data): the file's box shows success while the
\* Notion part of the loop body runs on the rows of the file.  An
\* exception of process_excel is caught by the `except` of the loop body.
ProcessRest ==
    /\ fpc = "rest"
    /\ IF uploaded_files[file_index].rest = "ok"
       THEN /\ file_status' = Append(file_status, "success")
            /\ fpc' = "notion"
            /\ NewUpload("find_project")
            /\ UNCHANGED <<file_index, overall_status>>
       ELSE /\ file_status' = Append(file_status, "error")
            /\ NextFile
            /\ UNCHANGED <<pc, i, store, projects, project_id, existing_task,
                           parent_task, existing_tasks, batch_start,
                           tasks_to_verify, counts, task_ids, errors, cur,
                           nodeLog>>
    /\ UNCHANGED <<run, inputs, apiVars>>
    /\ UNCHANGED <<uploaded_files, clicked, clsVars, rowVars>>

\* the Notion part of the loop body is over: no button was pressed, or
\* upload_tasks returned (st.success(...)), or search_project /
\* create_project raised and `except Exception as e:
\* file_status.error(...)` puts the error in the file's box, in the place
\* of the success message.  Then the progress line and the next file.
FileStepEnds ==
    /\ fpc = "notion"
    /\ pc \in {"no_click", "done", "aborted"}
    /\ file_status' = IF pc = "aborted"
                      THEN [file_status EXCEPT ![file_index] = "error"]
                      ELSE file_status
    /\ NextFile
    /\ NewUpload("idle")
    /\ UNCHANGED <<run, inputs, apiVars>>
    /\ UNCHANGED <<uploaded_files, clicked, clsVars, rowVars>>

\* overall_status.success(f"Completed processing all {total_files} files")
FilesCompleted ==
    /\ fpc = "after_loop"
    /\ fpc' = "completed"
    /\ overall_status' = "completed"
    /\ UNCHANGED <<uploaded_files, file_index, file_status, clicked,
                   uploadVars, clsVars, rowVars>>

\* the user presses a button of a file whose box shows success ("Upload
\* tasks to selected project" / "Create new project and upload tasks"):
\* Streamlit runs the script again from the top, on the same batch, and the
\* button of that file is True in that run
ClickButton ==
    /\ fpc = "completed"
    /\ run < MaxRuns
    /\ \E k \in 1..Len(uploaded_files) :
          /\ file_status[k] = "success"
          /\ clicked' = k
    /\ run' = run + 1
    /\ file_index' = 1
    /\ fpc' = "load"
    /\ file_status' = <<>>
    /\ overall_status' = "none"
    /\ UNCHANGED <<pc, i, store, projects, project_id, existing_task,
                   parent_task, existing_tasks, batch_start, tasks_to_verify,
                   counts, task_ids, errors, cur, nodeLog>>
    /\ UNCHANGED <<inputs, apiVars>>
    /\ UNCHANGED <<uploaded_files, clsVars, rowVars>>

\* a step of the script
FileStep ==
    \/ LoadAndCleanSheet
    \/ ProcessRest
    \/ AppSearchProject
    \/ AppCreateProject
    \/ AppFindTask
    \/ AppFindParent
    \/ AppWrite
    \/ FinalSummary
    \/ FileStepEnds
    \/ FilesCompleted

FileNext == FileStep \/ ClickButton

FileSpec == FileInit /\ [][FileNext]_vars

\* The script is one thread that runs to its end: every statement is
\* executed in its turn and every call to Notion returns or raises.  The
\* pressing of a button is the user's and is under no fairness.
FairFileSpec == FileSpec /\ WF_vars(FileStep)

\* ------------------------------------------------- classifying a sheet
\* `level_parents = {}` at the entry of classify_and_identify_parent_tasks
LeakedLevelParents == level_parents
FreshLevelParents == <<>>

ClassInit ==
    /\ UploadIdle
    /\ FilesIdle
    /\ RowStagesIdle
    /\ classifier \in Classifiers
    /\ data \in RawSheets
    /\ cidx = 1
    /\ level_parents = <<>>
    /\ data_with_types = <<>>
    /\ call_no = 1
    /\ first_result = <<>>

\* one iteration of `for idx, row in data_with_types.iterrows()` of
\* classify_and_identify_parent_tasks
AppClassifyRow ==
    /\ classifier = "app" /\ cidx <= Len(data)
    /\ LET row == data[cidx]
           pl == AppParentLevel(row.edt, level_parents)
       IN /\ data_with_types' = Append(data_with_types,
                 [Type |-> AppTaskType(row), Parent |-> pl.Parent,
                  Level |-> pl.Level])
          /\ level_parents' = StoreLevelParent(row.edt, level_parents)
    /\ cidx' = cidx + 1
    /\ UNCHANGED <<classifier, data, call_no, first_result, uploadVars, fileVars, rowVars>>

\* ExcelProcessor.process_excel_data for one row: a project row is
\* filtered out of the task rows (recorded as "Project"), any other row
\* gets get_type.  field_mappings has no "parent" key, so the branch
\* `elif field == "parent"` is never taken: the frame that comes out has a
\* Type column and neither a parent nor a level column.
ExcelClassifyRow ==
    /\ classifier = "excel" /\ cidx <= Len(data)
    /\ LET row == data[cidx] IN
       data_with_types' = Append(data_with_types,
           IF is_project(row)
           THEN [Type |-> "Project"]
           ELSE [Type |-> get_type(row)])
    /\ cidx' = cidx + 1
    /\ UNCHANGED <<classifier, data, level_parents, call_no, first_result,
                   uploadVars, fileVars, rowVars>>

\* ExcelProcessor.get_parent_task is public and no code of the repository
\* reaches it: a caller applies it to the EDT of the rows, one by one
GetParentTask ==
    /\ classifier = "get_parent_task" /\ cidx <= Len(data)
    /\ data_with_types' = Append(data_with_types,
           [Parent |-> get_parent_task(data[cidx].edt)])
    /\ cidx' = cidx + 1
    /\ UNCHANGED <<classifier, data, level_parents, call_no, first_result,
                   uploadVars, fileVars, rowVars>>

\* the function returns and is called a second time on the same rows, in
\* the same process: `data_with_types = data.copy()` and
\* `level_parents = {}` are locals of the new call (app.py); get_type and
\* get_parent_task read nothing but the row (excel/processor.py)
ClassifyAgain ==
    /\ call_no = 1 /\ cidx > Len(data)
    /\ first_result' = data_with_types
    /\ call_no' = 2
    /\ cidx' = 1
    /\ data_with_types' = <<>>
    /\ level_parents' = FreshLevelParents
    /\ UNCHANGED <<classifier, data, uploadVars, fileVars, rowVars>>

ClassNext ==
    AppClassifyRow \/ ExcelClassifyRow \/ GetParentTask \/ ClassifyAgain

ClassSpec == ClassInit /\ [][ClassNext]_vars

\* --------------------------------------------------- normalizing dates
otherThanRows == <<uploadVars, fileVars, clsVars>>

DateInit ==
    /\ UploadIdle
    /\ FilesIdle
    /\ ClassifierIdle
    /\ StatusIdle
    /\ NamesIdle
    /\ ConfigIdle
    /\ date_fn \in DateFns
    /\ start_cell \in DateCells
    /\ end_cell \in DateCells
    /\ dpc = "call"
    /\ date_range = Unset

Returns(r) ==
    /\ dpc = "call"
    /\ date_range' = r
    /\ dpc' = "returned"
    /\ UNCHANGED <<date_fn, start_cell, end_cell, statusVars, nameVars, cfgVars,
                   otherThanRows>>

FormatDateRange ==
    /\ date_fn = "format_date_range"
    /\ Returns(format_date_range(start_cell, end_cell))

CreateDateRange ==
    /\ date_fn = "create_date_range"
    /\ Returns(create_date_range(start_cell, end_cell))

ExcelProcessorCreateDateRange ==
    /\ date_fn = "excel_processor"
    /\ Returns(excel_processor_create_date_range(start_cell, end_cell))

ValidateDates ==
    /\ date_fn = "validate_dates"
    /\ Returns(PlannedDates(start_cell, end_cell))

DateNext ==
    \/ FormatDateRange
    \/ CreateDateRange
    \/ ExcelProcessorCreateDateRange
    \/ ValidateDates

DateSpec == DateInit /\ [][DateNext]_vars

\* ------------------------------------------------- translating a status
StatusInit ==
    /\ UploadIdle
    /\ FilesIdle
    /\ ClassifierIdle
    /\ DatesIdle
    /\ NamesIdle
    /\ ConfigIdle
    /\ status_fn \in StatusFns
    /\ status_cell \in StatusCells
    /\ spc = "cell"
    /\ status_column = NaN
    /\ status_emitted = NoStatus

\* ExcelProcessor.process_excel_data, field "status"
ExcelMapStatus ==
    /\ status_fn = "excel_pkg" /\ spc = "cell"
    /\ status_column' = map_fillna(status_cell)
    /\ spc' = "frame"
    /\ UNCHANGED <<status_fn, status_cell, status_emitted, dateVars, nameVars, cfgVars,
                   otherThanRows>>

\* excel_processor.py: `notion_structure["Status"] = filtered_data["STATUS"]`
LegacyCopyStatus ==
    /\ status_fn = "legacy_ops" /\ spc = "cell"
    /\ status_column' = status_cell
    /\ spc' = "frame"
    /\ UNCHANGED <<status_fn, status_cell, status_emitted, dateVars, nameVars, cfgVars,
                   otherThanRows>>

PkgPrepareStatus ==
    /\ status_fn = "excel_pkg" /\ spc = "frame"
    /\ status_emitted' = prepare_status(status_column)
    /\ spc' = "emitted"
    /\ UNCHANGED <<status_fn, status_cell, status_column, dateVars, nameVars, cfgVars,
                   otherThanRows>>

OpsCreateStatus ==
    /\ status_fn = "legacy_ops" /\ spc = "frame"
    /\ status_emitted' = create_status(status_column)
    /\ spc' = "emitted"
    /\ UNCHANGED <<status_fn, status_cell, status_column, dateVars, nameVars, cfgVars,
                   otherThanRows>>

\* app.py process_excel: process_dates renames the STATUS column to Status
\* and create_notion_structure copies it,
\* `notion_structure["Status"] = data.get("Status", ...)`
AppCreateStructure ==
    /\ status_fn = "app" /\ spc = "cell"
    /\ status_column' = status_cell
    /\ spc' = "frame"
    /\ UNCHANGED <<status_fn, status_cell, status_emitted, dateVars, nameVars, cfgVars,
                   otherThanRows>>

\* app.py: the script ends with no button of the file pressed, or a button
\* is pressed before the row is reached; the script runs again and
\* process_excel builds the frame anew from the same file
AppRunAgain ==
    /\ status_fn = "app" /\ spc = "frame"
    /\ status_column' = NaN
    /\ spc' = "cell"
    /\ UNCHANGED <<status_fn, status_cell, status_emitted, dateVars, nameVars, cfgVars,
                   otherThanRows>>

\* app.py upload_tasks: search_project, create_project or the row's
\* find_task_by_edt raises, and no property bag is built for the row
AppLookupRaises ==
    /\ status_fn = "app" /\ spc = "frame"
    /\ spc' = "raised"
    /\ UNCHANGED <<status_fn, status_cell, status_column, status_emitted, dateVars,
                   nameVars, cfgVars, otherThanRows>>

\* app.py upload_tasks, after find_task_by_edt has returned: the lookup of
\* update_task for a task that exists, of upload_tasks for one that does
\* not; both read the frame's Status cell
AppStatus ==
    /\ status_fn = "app" /\ spc = "frame"
    /\ status_emitted' = app_status(status_column)
    /\ spc' = "emitted"
    /\ UNCHANGED <<status_fn, status_cell, status_column, dateVars, nameVars, cfgVars,
                   otherThanRows>>

StatusNext ==
    \/ ExcelMapStatus
    \/ LegacyCopyStatus
    \/ PkgPrepareStatus
    \/ OpsCreateStatus
    \/ AppCreateStructure
    \/ AppRunAgain
    \/ AppLookupRaises
    \/ AppStatus

StatusSpec == StatusInit /\ [][StatusNext]_vars

\* ---------------------------------------------------- naming the tasks
\* ExcelProcessor.__init__ makes the generator; process_excel_data calls
\* reset() before anything else
NameInit ==
    /\ UploadIdle
    /\ FilesIdle
    /\ ClassifierIdle
    /\ DatesIdle
    /\ StatusIdle
    /\ ConfigIdle
    /\ used_names = {}
    /\ npc = "ready"
    /\ base_name = ""
    /\ index = 0
    /\ name_call = NoNameCall
    /\ names = <<>>

nameFrame == <<dateVars, statusVars, cfgVars, otherThanRows>>

\* generate_unique_name returns `name` (here without the
\* `self.used_names.add(...)` that comes before the return)
ReturnNameUnrecorded(name) ==
    /\ used_names' = used_names
    /\ names' = Append(names, name)
    /\ npc' = "ready"
    /\ index' = 0
\* generate_unique_name: `self.used_names.add(name)`, `return name`
ReturnName(name) ==
    /\ used_names' = used_names \cup {name}
    /\ names' = Append(names, name)
    /\ npc' = "ready"
    /\ index' = 0

\* generate_unique_name up to the loop
EnterGenerate(fn, row, base) ==
    /\ npc = "ready" /\ Len(names) < MaxCalls
    /\ base_name' = base
    /\ IF base \notin used_names
       THEN /\ ReturnName(base)
            /\ name_call' = [fn |-> fn, row |-> row, result |-> base]
       ELSE /\ index' = 1
            /\ npc' = "loop"
            /\ name_call' = [fn |-> fn, row |-> row, result |-> ""]
            /\ UNCHANGED <<used_names, names>>
    /\ UNCHANGED nameFrame

GenerateUniqueName ==
    \E row \in NameRows :
        /\ row.title # NaN /\ row.edt = NaN /\ ~row.is_milestone
        /\ EnterGenerate("generate_unique_name", row, row.title)

GetTaskName ==
    \E row \in NameRows : EnterGenerate("get_task_name", row, BaseName(row))

\* one iteration of `while True:`
TryIndex ==
    /\ npc = "loop"
    /\ IF new_name(base_name, index) \notin used_names
       THEN /\ ReturnName(new_name(base_name, index))
            /\ name_call' = [name_call EXCEPT !.result = new_name(base_name, index)]
       ELSE /\ index' = index + 1
            /\ UNCHANGED <<used_names, names, npc, name_call>>
    /\ UNCHANGED base_name
    /\ UNCHANGED nameFrame

\* TaskNameGenerator.reset
ResetNames ==
    /\ npc = "ready" /\ names # <<>>
    /\ used_names' = {}
    /\ names' = <<>>
    /\ name_call' = [fn |-> "reset", row |-> NoRow, result |-> ""]
    /\ UNCHANGED <<npc, base_name, index>>
    /\ UNCHANGED nameFrame

NameNext == GenerateUniqueName \/ GetTaskName \/ TryIndex \/ ResetNames

NameSpec == NameInit /\ [][NameNext]_vars

\* ------------------------------------------------- merging the configs
ConfigInit ==
    /\ UploadIdle
    /\ FilesIdle
    /\ ClassifierIdle
    /\ DatesIdle
    /\ StatusIdle
    /\ NamesIdle
    /\ cfg_fn \in {"pkg", "ops"}
    /\ base_dicts = DefaultDicts(cfg_fn)
    /\ self_config = ShallowCopy
    /\ user_config = NoOverrides
    /\ merges = 0
    /\ operator = FALSE
    /\ cfg_raised = "none"

cfgFrame == <<dateVars, statusVars, nameVars, otherThanRows>>

\* config/config.py merge_config and notion_ops.py _merge_config:
\* `config = base_config.copy()`, `return deep_update(config, user_config)`.
\* The config it returns, and what it has written into the dicts of the
\* default config by the time it returns.
merge_config(fn, user) == MergedConfig(ShallowCopyOf(fn), user)
merge_writes(fn, user) == MergedBase(ShallowCopyOf(fn), user, base_dicts)

\* one more call of a constructor or of update_config
ConfigCall ==
    /\ merges < MaxMerges
    /\ merges' = merges + 1
    /\ UNCHANGED cfg_fn
    /\ UNCHANGED cfgFrame

\* a constructor: the object exists when __init__ returns, and what
\* __init__ has assigned to it is lost when __init__ raises; an operator
\* made before stays as it is
Constructed(user, raised) ==
    /\ cfg_raised' = raised
    /\ IF raised = "none"
       THEN /\ self_config' = merge_config(cfg_fn, user)
            /\ user_config' = user
            /\ operator' = TRUE
       ELSE UNCHANGED <<self_config, user_config, operator>>

\* notion/api.py NotionOperator.__init__, called with a token: the merge
\* (line 24) has written into the dicts of NOTION_CONFIG before the
\* sub-operators are made and the config is validated
PkgConstruct ==
    /\ cfg_fn = "pkg"
    /\ ConfigCall
    /\ \E user \in UserConfigs :
          /\ base_dicts' = merge_writes("pkg", user)
          /\ Constructed(user, pkg_init_raises(merge_config("pkg", user),
                                               merge_writes("pkg", user)))

\* notion/api.py NotionOperator.update_config, of an operator that was
\* constructed: `self._config = merge_config(...)` (line 79) is assigned
\* before _validate_config or the making of the sub-operators raises
PkgUpdateConfig ==
    /\ cfg_fn = "pkg" /\ operator
    /\ ConfigCall
    /\ \E user \in UserConfigs :
          /\ base_dicts' = merge_writes("pkg", user)
          /\ self_config' = merge_config("pkg", user)
          /\ user_config' = user
          /\ cfg_raised' = pkg_update_raises(merge_config("pkg", user),
                                             merge_writes("pkg", user))
    /\ UNCHANGED operator

\* excel/processor.py ExcelProcessor.__init__: `if config:` is false for an
\* empty config and TYPED_EXCEL_CONFIG is used; any other config is merged
\* into EXCEL_CONFIG, whose status_config is the dict NOTION_CONFIG holds,
\* and create_excel_config is called on the result
ExcelConstruct ==
    /\ cfg_fn = "pkg"
    /\ ConfigCall
    /\ \E user \in UserConfigs :
          IF user = NoOverrides
          THEN /\ cfg_raised' = "none"
               /\ UNCHANGED base_dicts
          ELSE /\ base_dicts' = merge_writes("excel", user)
               /\ cfg_raised' =
                     create_excel_config_raises(merge_config("excel", user))
    /\ UNCHANGED <<self_config, user_config, operator>>

\* notion_ops.py NotionOperator.__init__, called with a token: _merge_config
\* (line 71) has written into the dicts of DEFAULT_CONFIG before
\* _validate_config (line 72) or the reading of the settings (lines 84-92)
\* raises
OpsConstruct ==
    /\ cfg_fn = "ops"
    /\ ConfigCall
    /\ \E user \in UserConfigs :
          /\ base_dicts' = merge_writes("ops", user)
          /\ Constructed(user, ops_init_raises(merge_config("ops", user),
                                               merge_writes("ops", user)))

ConfigNext == PkgConstruct \/ PkgUpdateConfig \/ ExcelConstruct \/ OpsConstruct

ConfigSpec == ConfigInit /\ [][ConfigNext]_vars

Next ==
    \/ AppSearchProject
    \/ AppCreateProject
    \/ AppFindTask
    \/ AppFindParent
    \/ AppWrite
    \/ PkgFindProject
    \/ PkgCreateProject
    \/ PkgFindTask
    \/ PkgFindParent
    \/ PkgWrite
    \/ OpsFindProject
    \/ OpsCreateProject
    \/ OpsFindBatch
    \/ OpsGetUserId
    \/ OpsProcessTask
    \/ OpsBatchDelay
    \/ OpsCreateOrUpdateTask
    \/ OpsFindTask
    \/ OpsWrite
    \/ FinalSummary
    \/ Resubmit

Spec == Init /\ [][Next]_vars

\* the upload is a sequential loop: whenever a step is possible, one is taken
FairSpec == Spec /\ WF_vars(Next)

\* ====================================================================
\* Properties
\* ====================================================================
Rows == 1..Len(sheet)
Logged == 1..Len(nodeLog)
RecordsWithKey(key) == { k \in 1..Len(store) : RecordKey(store[k]) = key }
DistinctKeys ==
    \A a, b \in Rows : a # b => TaskKey(sheet[a], PID) # TaskKey(sheet[b], PID)
\* the ids of the project pages created so far
ProjectIds == { ProjectId(n) : n \in 1..projects }
Tally == counts.created + counts.updated + counts.skipped + counts.failed
UploadOver == pc \in {"done", "aborted"}
CallEnded == call.status \in {"ok", "raised", "none"}

\* C1 (as claimed): upsert idempotence -- however often a sheet of rows with
\* pairwise distinct composite keys is submitted, the store never holds two
\* records created for the same (title, EDT, project) key.
C1_UpsertIdempotent ==
    DistinctKeys =>
        \A j \in Rows : \A p \in ProjectIds :
            Cardinality(RecordsWithKey(TaskKey(sheet[j], p))) <= 1

\* C2 (as claimed): update-or-skip -- a row whose lookup found a record with
\* the same Type gets no update call and the outcome Skipped.
C2_UpdateOrSkip ==
    \A k \in Logged :
        (nodeLog[k].found /\ nodeLog[k].sameType) =>
            (nodeLog[k].wrote = "none" /\ nodeLog[k].outcome = "skipped")

\* C3 (as claimed): partial-failure tolerance -- once the project is
\* resolved, an upload that is over has processed every row of the sheet,
\* whatever rows failed.
C3_PartialFailureTolerant ==
    (UploadOver /\ project_id # "") => Len(nodeLog) = Len(sheet)

\* C4: ordering -- rows are upserted one at a time in row order, and a row
\* whose parent code names an earlier row that was written finds the parent
\* in the store at its own parent lookup and write.
C4_RowOrder ==
    /\ \A k \in Logged : nodeLog[k].idx = k
    /\ (pc \in {"find_task", "find_parent", "write", "get_user", "process"} =>
            cur.idx = Len(nodeLog) + 1)
    /\ \A k \in Logged : \A j \in 1..(k-1) :
          (sheet[j].edt = sheet[k].parent /\ nodeLog[j].writeOk) =>
              /\ nodeLog[k].wrote # "none" => nodeLog[k].parentVisible
              /\ nodeLog[k].parentRes # "none"

C4_Witness ==
    \E k \in Logged : \E j \in 1..(k-1) :
        /\ run = 1
        /\ sheet[j].edt = sheet[k].parent
        /\ nodeLog[j].writeOk /\ nodeLog[j].wrote = "create"
        /\ nodeLog[k].writeOk /\ nodeLog[k].parentVisible
        /\ nodeLog[k].parentRes = "found"

\* C5: missing-parent resilience -- a row whose parent lookup returned no
\* record still has its create or update call issued, with an empty parent
\* relation.
C5_MissingParent ==
    \A k \in Logged :
        nodeLog[k].parentRes = "none" =>
            (nodeLog[k].wrote \in {"create", "update"} /\ nodeLog[k].rel = 0)

C5_Witness ==
    \E k \in Logged :
        /\ sheet[nodeLog[k].idx].parent # NoParent
        /\ nodeLog[k].parentRes = "none"
        /\ nodeLog[k].wrote = "create" /\ nodeLog[k].writeOk
        /\ store[Len(store)].parent = 0

\* C6 (as claimed): retry exhaustion gives Failed -- a row one of whose
\* remote calls (existence lookup, parent lookup, write) raised after the
\* last attempt ends Failed, and no write is issued after a lookup raised.
C6_ExhaustionFails ==
    \A k \in Logged :
        LET e == nodeLog[k] IN
        /\ (e.lookupRaised \/ e.parentRes = "raised") =>
               (e.outcome = "failed" /\ e.wrote = "none")
        /\ (e.wrote # "none" /\ ~e.writeOk /\ maxRetries > 0) =>
               e.outcome = "failed"

\* C7 (as claimed): bounded retry -- a finished handle_api_call made at
\* least one and at most max_retries attempts and either returned the
\* result of a successful attempt or raised.
C7_AtLeastOneAttempt ==
    (call.via = "handle_api_call" /\ CallEnded) =>
        /\ call.att >= 1 /\ call.att <= maxRetries
        /\ call.status \in {"ok", "raised"}

\* C7 (amended): for max_retries >= 1 a finished handle_api_call made
\* between 1 and max_retries attempts, returned at its first success or
\* raised the last error after max_retries failures; for max_retries = 0 it
\* makes no attempt and returns None.
C7_BoundedRetry ==
    call.via = "handle_api_call" =>
        /\ call.att <= maxRetries
        /\ Len(call.errs) <= maxRetries
        /\ (call.status = "running" => call.att < maxRetries)
        /\ (CallEnded /\ maxRetries >= 1) =>
               (call.att >= 1 /\ call.status \in {"ok", "raised"})
        /\ call.status = "ok" => Len(call.errs) = call.att - 1
        /\ call.status = "raised" =>
               /\ call.att = maxRetries
               /\ Len(call.errs) = maxRetries
               /\ call.err = call.errs[Len(call.errs)]
        /\ call.status = "none" => (maxRetries = 0 /\ call.att = 0)

C7_Witness ==
    /\ call.via = "handle_api_call"
    /\ maxRetries >= 2
    /\ call.status = "raised"
    /\ call.att = maxRetries

\* C8 (as claimed): a structural error is surfaced after that one attempt:
\* the call raises at once, is not retried, and the upload stops.
C8_StructuralNotRetried ==
    call.via = "handle_api_call" =>
        /\ \A k \in 1..Len(call.errs) :
              call.errs[k] = "structural" =>
                  (k = Len(call.errs) /\ call.status = "raised")
        /\ (call.status = "raised" /\ call.err = "structural") =>
               pc = "aborted"

\* C9 (as claimed): throttling -- every remote call attempt is preceded by
\* a delay of at least the minimum interval since the previous attempt.
C9_Throttled == throttled

\* C10: aggregate counts -- in upload_tasks (app.py) and in
\* create_project_with_tasks (notion_ops.py) every processed row is counted
\* in exactly one outcome counter, the one of its outcome: after k rows the
\* tally created + updated + skipped + failed is k, and after the whole
\* sheet it is the number of rows.
Outcome(o) == { k \in Logged : nodeLog[k].outcome = o }
C10_TallyMatches ==
    impl \in {"app", "ops"} =>
        /\ Tally = Len(nodeLog)
        /\ counts.created = Cardinality(Outcome("created"))
        /\ counts.updated = Cardinality(Outcome("updated"))
        /\ counts.skipped = Cardinality(Outcome("skipped"))
        /\ counts.failed = Cardinality(Outcome("failed"))
        /\ pc = "done" => Tally = Len(sheet)

C10_Witness ==
    /\ impl = "app" /\ pc = "done" /\ run = 2 /\ Len(sheet) = 2
    /\ counts.updated = 1 /\ counts.failed = 1

\* C11 (as claimed): a final summary is always emitted -- every upload of
\* a sheet whose project was resolved and whose task loop started eventually
\* reaches, in that same run, the final summary ("done"), whatever rows
\* failed.
C11_SummaryEmitted ==
    \A r \in 1..MaxRuns :
        (run = r /\ project_id # "" /\ pc \in {"find_task", "batch_find"})
            ~> (run = r /\ pc = "done")

\* C12 (as claimed): bounded error tail -- the list of error messages the
\* upload retains holds at most N = 5 messages, and the messages surfaced
\* are the (at most) N most recent ones in occurrence order.
C12_BoundedErrorTail ==
    /\ Len(errors) <= ErrorTail
    /\ Len(error_text(errors).shown) <= ErrorTail
    /\ \A k \in 1..Len(error_text(errors).shown) :
          error_text(errors).shown[k] =
              errors[Len(errors) - Len(error_text(errors).shown) + k]

\* C13: project before tasks -- whenever the upload is at a task lookup,
\* write or summary step, the project record has been resolved (found or
\* created); and when project resolution failed, the upload stopped without
\* having touched any row.
TaskStage ==
    pc \in {"find_task", "find_parent", "write", "batch_find", "get_user",
            "process", "batch_sleep", "summary", "done"}
C13_ProjectBeforeTasks ==
    /\ TaskStage =>
          /\ projects > 0
          /\ project_id \in ProjectIds \cup { ProjectPage(n) : n \in 1..projects }
    /\ project_id = "" =>
          /\ pc \in {"find_project", "create_project", "aborted"}
          /\ nodeLog = <<>> /\ cur = NewEntry(RowAt(1)) /\ i = 1
          /\ counts = ZeroCounts /\ task_ids = <<>>

C13_Witness ==
    /\ run = 2 /\ store # <<>>
    /\ pc = "aborted" /\ project_id = ""
    /\ call.status = "raised"

\* C14 (as claimed): the lookup decides the write -- a create is issued for
\* a row only when no record carried the row's composite key (title, EDT,
\* project) when its lookup was made; when one or more did, no create is
\* issued and an update targets the first of them.
C14_LookupDecidesWrite ==
    \A k \in Logged :
        LET e == nodeLog[k] IN
        e.idx \in DOMAIN e.matches =>
            /\ e.wrote = "create" => e.matches[e.idx] = {}
            /\ (e.matches[e.idx] # {} /\ e.wrote = "update") =>
                   \A m \in e.matches[e.idx] : e.target <= m

\* the status boxes of a script run: a file without a header marker row
\* has an error in its own box, every file the loop has gone through has
\* exactly one box, in batch order, and "Completed processing all files"
\* is shown only after every file
StatusBoxes ==
    /\ \A k \in 1..Len(file_status) :
          ~uploaded_files[k].header => file_status[k] = "error"
    /\ Len(file_status) =
          (IF fpc \in {"load", "rest"} THEN file_index - 1
           ELSE IF fpc = "notion" THEN file_index
           ELSE Len(uploaded_files))
    /\ fpc \in {"load", "rest", "notion"} =>
          file_index \in 1..Len(uploaded_files)
    /\ overall_status = "completed" => Len(file_status) = Len(uploaded_files)

\* the loop is at file k, whose sheet has no header marker row
LoadsHeaderless(k) ==
    /\ fpc = "load" /\ file_index = k
    /\ k <= Len(uploaded_files)
    /\ ~uploaded_files[k].header

\* the batch has completed, every file has its status box and the box of
\* file k shows an error
CompletedWithError(k) ==
    /\ overall_status = "completed"
    /\ Len(file_status) = Len(uploaded_files)
    /\ k <= Len(file_status)
    /\ file_status[k] = "error"

\* C15: header-not-found is fatal to its file only -- a file without a
\* header marker row gets an error in its own status box and in no other,
\* every file of the batch gets exactly one status (success or error) in
\* batch order, and whenever the loop comes to a file without a header
\* marker row the script goes on through every later file and reaches
\* "Completed processing all files".
C15_HeaderNotFoundLocal ==
    /\ []StatusBoxes
    /\ \A k \in 1..MaxFiles : LoadsHeaderless(k) ~> CompletedWithError(k)

\* a batch has completed whose first file has no header marker row and
\* whose last file was processed
C15_Witness ==
    /\ overall_status = "completed"
    /\ Len(uploaded_files) >= 2
    /\ ~uploaded_files[1].header
    /\ file_status[1] = "error"
    /\ file_status[Len(uploaded_files)] = "success"

\* the rows classified so far; those that were given a Type, and the
\* Parent Task of a row (null where the result has no parent column)
Classified == 1..Len(data_with_types)
Typed == { k \in Classified : "Type" \in DOMAIN data_with_types[k] }
ParentOf(k) ==
    IF "Parent" \in DOMAIN data_with_types[k]
    THEN data_with_types[k].Parent ELSE None

\* the code of a row without a trailing .M
StripM(edt) == IF EndsWithDotM(edt) THEN Front(edt) ELSE edt

\* p is a strict dot-prefix of c
StrictDotPrefix(p, c) ==
    /\ Len(p) < Len(c)
    /\ \A k \in 1..Len(p) : p[k] = c[k]

\* C16 (as claimed): a row whose code has exactly two segments is
\* classified Project or Phase ("Fase"), never Task or Milestone, whatever
\* its title and assignee.
C16_TwoSegmentsProjectOrPhase ==
    \A k \in Typed :
        Len(data[k].edt) = 2 => data_with_types[k].Type \in {"Project", "Fase"}

\* C17 (as claimed): a row whose code ends with the segment M is
\* classified Milestone, whatever its title, depth and assignee.
C17_DotMIsMilestone ==
    \A k \in Typed :
        EndsWithDotM(data[k].edt) => data_with_types[k].Type = "Milestone"

\* C18 (as claimed): an assigned parent code is a strict dot-prefix of the
\* row's code (without a trailing .M) and exactly one segment shorter.
C18_ParentIsDotPrefix ==
    \A k \in Classified :
        LET p == ParentOf(k)
            c == StripM(data[k].edt)
        IN p # None => (StrictDotPrefix(p, c) /\ Len(p) = Len(c) - 1)

\* C19 (as claimed): the parent code assigned to a row with a .M code is
\* never a two-segment (Project) code.
C19_MilestoneNotUnderProject ==
    \A k \in Classified :
        EndsWithDotM(data[k].edt) => Len(ParentOf(k)) # 2

\* the rows before row k whose code is a strict dot-prefix of code c
EnclosingBefore(k, c) ==
    { j \in 1..(k-1) : StrictDotPrefix(data[j].edt, c) }

\* C20 (as claimed): a row none of whose earlier rows is its enclosing row
\* one level up, but some earlier row at a shallower depth encloses it,
\* gets as parent the code of an enclosing earlier row of the greatest
\* depth; its parent is not left null.
C20_SkippedLevelFallback ==
    \A k \in Classified :
        LET c == data[k].edt
            enc == EnclosingBefore(k, c)
        IN (/\ ~EndsWithDotM(c)
            /\ enc # {}
            /\ \A j \in enc : Len(data[j].edt) < Len(c) - 1) =>
               \E j \in enc :
                  /\ ParentOf(k) = data[j].edt
                  /\ \A m \in enc : Len(data[m].edt) <= Len(data[j].edt)

\* C21: classifying the same ordered rows a second time, in the same
\* process, gives every row the Type, Parent Task and Level the first call
\* gave it: nothing of the first call is left for the second.
C21_ClassifierDeterministic ==
    (call_no = 2 /\ cidx <= Len(data) + 1) =>
        \A k \in 1..Len(data_with_types) : data_with_types[k] = first_result[k]

\* the second call has classified a whole sheet in which the first call left
\* a shallower code stored than the one the sheet starts with
C21_Witness ==
    /\ call_no = 2 /\ cidx > Len(data) /\ classifier = "app"
    /\ Len(data) = 2
    /\ Len(data[1].edt) > Len(data[2].edt)
    /\ ~EndsWithDotM(data[1].edt) /\ ~EndsWithDotM(data[2].edt)
    /\ data_with_types = first_result
\* C22: when both cells hold a date and the start is after the end, the
\* range that comes out has the end's day as its start and the start's day
\* as its end (the end is not dropped), and any range with both days set
\* has its start no later than its end.
DayOf(str) == CHOOSE k \in 1..Len(DayStr) : DayStr[k] = str
IsDay(str) == \E k \in 1..Len(DayStr) : DayStr[k] = str
C22_DateSwap ==
    dpc = "returned" =>
        /\ (notna(start_cell) /\ notna(end_cell) /\ After(start_cell, end_cell)
              => date_range = Range(strftime(end_cell), strftime(start_cell)))
        /\ (date_range.kind = "range" /\ IsDay(date_range.start)
              /\ IsDay(date_range.end)
              => DayOf(date_range.start) <= DayOf(date_range.end))

\* C23: with exactly one of the two cells holding a date the range starts
\* and ends on that day and the call does not raise; with neither the
\* result is null.
C23_SingleDate ==
    dpc = "returned" =>
        /\ (notna(start_cell) /\ ~notna(end_cell)
              => date_range = Range(strftime(start_cell), strftime(start_cell)))
        /\ (~notna(start_cell) /\ notna(end_cell)
              => date_range = Range(strftime(end_cell), strftime(end_cell)))
        /\ (~notna(start_cell) /\ ~notna(end_cell) => date_range = NoRange)
\* C24 as stated: the status put in the property bag is the image of the
\* raw cell in the translation table when the cell is one of its keys, and
\* the default "Not started" for every other cell.
C24_StatusFallback ==
    spc = "emitted" =>
        status_emitted =
            IF status_cell \in Keys(StatusTable(status_fn))
            THEN Get(StatusTable(status_fn), status_cell, DefaultStatus)
            ELSE "Not started"
\* the text a pipeline looks up in its table: notion_ops.py strips the
\* blanks around the cell's text first, the other two look the cell up as
\* it is
LookedUp(fn, cell) == IF fn = "legacy_ops" THEN strip(cell) ELSE cell
\* the images of the three tables and the default
CanonicalNames ==
    { p[2] : p \in status_mapping \cup ops_status_mappings \cup app_status_mapping }
        \cup {DefaultStatus}
\* C24: the status put in the property bag is the image, in the pipeline's
\* translation table, of the text the pipeline looks up (the raw cell, and
\* for notion_ops.py the raw cell stripped of the blanks around it) when
\* that text is a key of the table, and the default "Not started" for every
\* other cell, an empty one included; it is always a canonical status name.
C24_StatusFallbackStripped ==
    spc = "emitted" =>
        /\ status_emitted =
              IF status_cell # NaN
                  /\ LookedUp(status_fn, status_cell) \in Keys(StatusTable(status_fn))
              THEN Get(StatusTable(status_fn), LookedUp(status_fn, status_cell),
                       DefaultStatus)
              ELSE "Not started"
        /\ status_emitted \in CanonicalNames

\* notion_ops.py has emitted "Done" for the cell "Done ", which is no key
\* of its table
C24_Witness ==
    /\ spc = "emitted" /\ status_fn = "legacy_ops"
    /\ status_cell = Padded /\ status_cell \notin Keys(ops_status_mappings)
    /\ status_emitted = "Done"
\* C25: the title get_task_name returns is never the empty string, whatever
\* the title cell (missing, empty, blanks only) and the EDT cell (present or
\* missing); for a blank title cell it starts with the Task / Milestone
\* prefix, followed by the EDT code when there is one.
BlankTitleBase(row) ==
    (IF row.is_milestone THEN "Milestone" ELSE "Task")
        \o (IF row.edt = NaN THEN "" ELSE " " \o row.edt)
C25_TitleNeverEmpty ==
    (npc = "ready" /\ name_call.fn = "get_task_name") =>
        /\ name_call.result # ""
        /\ name_call.result = names[Len(names)]
        /\ (IsBlank(name_call.row.title) =>
              \E k \in 0..MaxCalls :
                  name_call.result =
                      IF k = 0 THEN BlankTitleBase(name_call.row)
                      ELSE BlankTitleBase(name_call.row) \o " _" \o ToString(k))

\* get_task_name has returned for a row whose title is blanks only and
\* whose EDT is missing
C25_Witness ==
    /\ npc = "ready" /\ name_call.fn = "get_task_name"
    /\ name_call.row.title = "  " /\ name_call.row.edt = NaN
    /\ name_call.result = "Task"

\* C28: since the last reset() the names returned by generate_unique_name
\* and get_task_name are pairwise distinct and all recorded in used_names,
\* and the search for a free suffix stops: it never looks further than one
\* index per recorded name.
C28_UniqueNames ==
    /\ \A a, b \in 1..Len(names) : a # b => names[a] # names[b]
    /\ \A a \in 1..Len(names) : names[a] \in used_names
    /\ Cardinality(used_names) = Len(names)
    /\ (npc = "loop" => index <= Cardinality(used_names))

\* a base name that reads like a suffixed name was returned first, then the
\* plain name twice: the third call had to pass over the taken suffix
C28_Witness ==
    /\ npc = "ready" /\ Len(names) = 3
    /\ names[1] = "Obra _1" /\ names[2] = "Obra" /\ names[3] = "Obra _2"
\* C29: a merge leaves the default config and the dicts nested in it as they
\* were, so the config a merge returns has the default value for every
\* setting its own overrides do not name, whatever was merged before.
NotOverridden(key, field) ==
    \/ user_config[key].kind = "absent"
    \/ user_config[key].kind = "dict" /\ field \notin Keys(user_config[key].items)
C29_MergeLeavesBase ==
    /\ base_dicts = DefaultDicts(cfg_fn)
    /\ \A key \in ConfigKeys : \A field \in Keys(DefaultDicts(cfg_fn)[key]) :
          NotOverridden(key, field) =>
              Setting(self_config, base_dicts, key, field)
                  = Get(DefaultDicts(cfg_fn)[key], field, "")
\* C26: when the app.py classifier emits a row at depth D, its table of
\* last-seen codes afterwards holds the row's code at depth D and nothing
\* deeper, and what it held above depth D is as it was before the row.
StackStep(D, edt) ==
    /\ D \in DOMAIN level_parents'
    /\ level_parents'[D] = edt
    /\ \A l \in DOMAIN level_parents' : l <= D
    /\ \A l \in DOMAIN level_parents :
          l < D => l \in DOMAIN level_parents' /\ level_parents'[l] = level_parents[l]
C26_LevelParentsStack ==
    [][(classifier = "app" /\ cidx' = cidx + 1)
          => StackStep(data_with_types'[cidx].Level, data[cidx].edt)]_vars
\* C30: every Parent Task the classifier gives a row, rows with a .M code
\* included, is the code of a row that comes earlier in the same sheet.
C30_ParentsExist ==
    \A k \in Classified :
        ParentOf(k) # None =>
            \E j \in 1..(k - 1) : data[j].edt = ParentOf(k)
====
